---- MODULE Spec2Model ----
(***************************************************************************)
(* Job-Search-AI-Agent: the match-scoring step (agent.py), the validation  *)
(* agent (validation_agent.py), the helpers of config.py and the resume    *)
(* store (database.py), as state machines.                                 *)
(*                                                                         *)
(* Text is a sequence of one-character strings, so that lower(), substring *)
(* search and the regular expressions of config.py are computed and not    *)
(* assumed.  A Python dict is a function whose domain is its key set.      *)
(***************************************************************************)
EXTENDS Integers, Sequences, FiniteSets, TLC

VARIABLES
    pc,                 \* position of the running call
    resume,             \* database.py: the document stored under "resume_001" ("" when none)
    companies,          \* search_all_companies: parameter companies
    job_roles,          \* search_all_companies / validate_job_batch: parameter job_roles
    user_experience,    \* parameter user_experience
    company_idx,        \* search_all_companies: position of the company loop (agent.py:249)
    query_idx,          \* search_jobs_serper: number of queries already issued for the company
    all_results,        \* search_jobs_serper: local all_results (agent.py:72)
    seen_links,         \* search_jobs_serper: local seen_links (agent.py:73)
    score_idx,          \* search_all_companies: position of the scoring loop (agent.py:255)
    jobs,               \* search_all_companies: local all_jobs, the list that validate_job_batch
                        \* gets as jobs and whose dicts it mutates in place
    idx,                \* validate_job_batch: number of jobs the loop has finished
    validated_jobs,     \* validate_job_batch: local validated_jobs
    basic_validation,   \* validate_job_batch: local of the latest iteration
    ai_validation,      \* validate_job_batch: local of the latest iteration
    branch,             \* validate_job_batch: how each finished iteration ended
    gate2_calls,        \* per job: model requests issued by verify_with_ai
    verify_log,         \* per finished iteration: what the request of verify_with_ai came back with
    search_calls,       \* requests issued to the search API
    model_calls,        \* requests issued to the language model
    score_log,          \* per scored candidate: the outcome the model call had
    call_in,            \* a single call of a function: its arguments
    call_out,           \* a single call of a function: its return value
    result              \* search_all_companies: the returned dict

vars == <<pc, resume, companies, job_roles, user_experience, company_idx, query_idx,
          all_results, seen_links, score_idx, jobs, idx, validated_jobs,
          basic_validation, ai_validation, branch, gate2_calls, verify_log, search_calls,
          model_calls, score_log, call_in, call_out, result>>

----------------------------------------------------------------------------
(* Python str and dict primitives                                          *)

Uppers == <<"A","B","C","D","E","F","G","H","I","J","K","L","M","N","O","P","Q","R","S","T","U","V","W","X","Y","Z">>
Lowers == <<"a","b","c","d","e","f","g","h","i","j","k","l","m","n","o","p","q","r","s","t","u","v","w","x","y","z">>
Digits == <<"0","1","2","3","4","5","6","7","8","9">>

UpperSet == {Uppers[i] : i \in 1..26}
LowerSet == {Lowers[i] : i \in 1..26}
DigitSet == {Digits[i] : i \in 1..10}

LowerOf == [c \in UpperSet |-> Lowers[CHOOSE i \in 1..26 : Uppers[i] = c]]
ValueOf == [c \in DigitSet |-> (CHOOSE i \in 1..10 : Digits[i] = c) - 1]

\* str.lower() on one character
LowerChar(c) == IF c \in UpperSet THEN LowerOf[c] ELSE c

\* str.lower()
RECURSIVE ToLower(_)
ToLower(s) ==
    IF Len(s) = 0 THEN << >>
    ELSE Append(ToLower(SubSeq(s, 1, Len(s) - 1)), LowerChar(s[Len(s)]))

IsDigit(c) == c \in DigitSet
IsAlpha(c) == c \in UpperSet \/ c \in LowerSet
IsAlnum(c) == IsDigit(c) \/ IsAlpha(c)
\* \s of the re module, on the characters texts are built from
IsSpace(c) == c \in {" ", "\t", "\n", "\r"}

DigitVal(c) == ValueOf[c]

\* int() of a run of decimal digits
RECURSIVE ParseInt(_)
ParseInt(ds) ==
    IF Len(ds) = 0 THEN 0
    ELSE 10 * ParseInt(SubSeq(ds, 1, Len(ds) - 1)) + DigitVal(ds[Len(ds)])

\* s[i:i+len(w)] == w
HasPrefixAt(s, i, w) ==
    /\ i >= 1
    /\ i + Len(w) - 1 <= Len(s)
    /\ SubSeq(s, i, i + Len(w) - 1) = w

\* needle in haystack
Contains(haystack, needle) ==
    \E i \in 1..(Len(haystack) - Len(needle) + 1) :
        SubSeq(haystack, i, i + Len(needle) - 1) = needle

\* the position after the longest run of digits that starts at i
RECURSIVE DigitRunEnd(_, _)
DigitRunEnd(s, i) ==
    IF i <= Len(s) /\ IsDigit(s[i]) THEN DigitRunEnd(s, i + 1) ELSE i

\* the position after the longest run of white space that starts at i
RECURSIVE SkipSpaces(_, _)
SkipSpaces(s, i) ==
    IF i <= Len(s) /\ IsSpace(s[i]) THEN SkipSpaces(s, i + 1) ELSE i

\* the empty dict {}
NoDict == [k \in {} |-> TRUE]

\* d.get(k, default)
Get(d, k, default) == IF k \in DOMAIN d THEN d[k] ELSE default

\* {**a, **b}
Merge(a, b) ==
    [k \in (DOMAIN a) \cup (DOMAIN b) |-> IF k \in DOMAIN b THEN b[k] ELSE a[k]]

\* d with d[k] = v executed
Put(d, k, v) == [x \in (DOMAIN d) \cup {k} |-> IF x = k THEN v ELSE d[x]]

----------------------------------------------------------------------------
(* config.py                                                               *)

\* Config.INDIAN_CITIES, lowercased as is_indian_location compares them
INDIAN_CITIES ==
    << <<"b","a","n","g","a","l","o","r","e">>, <<"m","u","m","b","a","i">>, <<"p","u","n","e">>, <<"h","y","d","e","r","a","b","a","d">>, <<"c","h","e","n","n","a","i">>,
       <<"d","e","l","h","i">>, <<"n","c","r">>, <<"g","u","r","u","g","r","a","m">>, <<"n","o","i","d","a">>, <<"k","o","l","k","a","t","a">>,
       <<"a","h","m","e","d","a","b","a","d">>, <<"k","o","c","h","i">>, <<"i","n","d","o","r","e">>, <<"j","a","i","p","u","r">>, <<"c","h","a","n","d","i","g","a","r","h">> >>

\* Config.is_indian_location
is_indian_location(location_text) ==
    IF Len(location_text) = 0 THEN FALSE
    ELSE \E location_lower \in {ToLower(location_text)} :
         \/ Contains(location_lower, <<"i","n","d","i","a">>)
         \/ \E c \in 1..Len(INDIAN_CITIES) : Contains(location_lower, INDIAN_CITIES[c])

\* the parts of s between the dots
RECURSIVE SplitDots(_)
SplitDots(s) ==
    IF \A i \in 1..Len(s) : s[i] # "."
    THEN << s >>
    ELSE \* split at the last dot
         CHOOSE parts \in
            { Append(SplitDots(SubSeq(s, 1, d - 1)), SubSeq(s, d + 1, Len(s))) :
                d \in {i \in 1..Len(s) : s[i] = "." /\ \A j \in (i + 1)..Len(s) : s[j] # "."} } :
            TRUE

\* [A-Z0-9](?:[A-Z0-9-]{0,61}[A-Z0-9])?  under re.IGNORECASE
IsDomainLabel(l) ==
    /\ Len(l) >= 1
    /\ Len(l) <= 63
    /\ IsAlnum(l[1])
    /\ IsAlnum(l[Len(l)])
    /\ \A i \in 1..Len(l) : IsAlnum(l[i]) \/ l[i] = "-"

\* (?:label\.)+[A-Z]{2,6}\.?
IsDomainHost(h) ==
    \E parts \in {SplitDots(IF Len(h) > 0 /\ h[Len(h)] = "."
                            THEN SubSeq(h, 1, Len(h) - 1) ELSE h)} :
    \E tld \in {parts[Len(parts)]} :
        /\ Len(parts) >= 2
        /\ \A i \in 1..(Len(parts) - 1) : IsDomainLabel(parts[i])
        /\ Len(tld) >= 2
        /\ Len(tld) <= 6
        /\ \A i \in 1..Len(tld) : IsAlpha(tld[i])

\* \d{1,3}\.\d{1,3}\.\d{1,3}\.\d{1,3}
IsIpHost(h) ==
    \E parts \in {SplitDots(h)} :
    /\ Len(parts) = 4
    /\ \A i \in 1..4 :
          /\ Len(parts[i]) >= 1
          /\ Len(parts[i]) <= 3
          /\ \A k \in 1..Len(parts[i]) : IsDigit(parts[i][k])

\* the host alternatives of url_pattern
IsUrlHost(h) == IsDomainHost(h) \/ ToLower(h) = <<"l","o","c","a","l","h","o","s","t">> \/ IsIpHost(h)

\* (?::\d+)?(?:/?|[/?]\S+)$  on the rest of the URL after the host
IsUrlRest(r) ==
    LET afterPort(p) == SubSeq(r, p, Len(r))
        tailOk(t) ==
            \/ Len(t) = 0
            \/ t = << "/" >>
            \/ /\ Len(t) >= 2
               /\ t[1] \in {"/", "?"}
               /\ \A i \in 2..Len(t) : ~IsSpace(t[i])
    IN  \/ tailOk(r)
        \/ /\ Len(r) >= 2
           /\ r[1] = ":"
           /\ IsDigit(r[2])
           /\ \E p \in 3..(Len(r) + 1) :
                 /\ \A i \in 2..(p - 1) : IsDigit(r[i])
                 /\ tailOk(afterPort(p))

\* url_pattern.match(url): scheme, host, optional port, path
UrlPatternMatches(url) ==
    \E start \in {IF HasPrefixAt(ToLower(url), 1, <<"h","t","t","p",":","/","/">>) THEN 8
                   ELSE IF HasPrefixAt(ToLower(url), 1, <<"h","t","t","p","s",":","/","/">>) THEN 9
                   ELSE 0} :
    \* $ also matches before one trailing newline
    \E body \in {IF Len(url) > 0 /\ url[Len(url)] = "\n"
                  THEN SubSeq(url, 1, Len(url) - 1) ELSE url} :
        /\ start > 0
        /\ \E e \in start..(Len(body) + 1) :
              /\ IsUrlHost(SubSeq(body, start, e - 1))
              /\ IsUrlRest(SubSeq(body, e, Len(body)))

\* job_keywords of is_valid_job_url
job_keywords ==
    << <<"j","o","b">>, <<"c","a","r","e","e","r">>, <<"p","o","s","i","t","i","o","n">>, <<"v","a","c","a","n","c","y">>, <<"o","p","e","n","i","n","g">>, <<"h","i","r","i","n","g">>, <<"a","p","p","l","y">> >>

NA == <<"N","/","A">>

\* Config.is_valid_job_url
is_valid_job_url(url) ==
    IF Len(url) = 0 \/ url = NA THEN FALSE
    ELSE IF ~UrlPatternMatches(url) THEN FALSE
    ELSE \E url_lower \in {ToLower(url)} :
         \E k \in 1..Len(job_keywords) : Contains(url_lower, job_keywords[k])

\* (?:years?|yrs?) at position i
YearWordAt(s, i) == HasPrefixAt(s, i, <<"y","e","a","r">>) \/ HasPrefixAt(s, i, <<"y","r">>)

\* (\d+)\s*-\s*(\d+)\s*(?:years?|yrs?) matched at position i
RangeMatchAt(s, i) ==
    LET e1 == DigitRunEnd(s, i)
        d  == SkipSpaces(s, e1)
        b2 == SkipSpaces(s, d + 1)
        e2 == DigitRunEnd(s, b2)
    IN  /\ e1 > i
        /\ d <= Len(s)
        /\ s[d] = "-"
        /\ e2 > b2
        /\ YearWordAt(s, SkipSpaces(s, e2))

\* (\d+)\+?\s*(?:years?|yrs?) matched at position i
PlusMatchAt(s, i) ==
    LET e1 == DigitRunEnd(s, i)
        p  == IF e1 <= Len(s) /\ s[e1] = "+" THEN e1 + 1 ELSE e1
    IN  /\ e1 > i
        /\ YearWordAt(s, SkipSpaces(s, p))

\* re.search: the leftmost position from i on where the range pattern matches, 0 if none
RECURSIVE FirstRangeMatch(_, _)
FirstRangeMatch(s, i) ==
    IF i > Len(s) THEN 0
    ELSE IF RangeMatchAt(s, i) THEN i
    ELSE FirstRangeMatch(s, i + 1)

\* re.search: the leftmost position from i on where the plus pattern matches, 0 if none
RECURSIVE FirstPlusMatch(_, _)
FirstPlusMatch(s, i) ==
    IF i > Len(s) THEN 0
    ELSE IF PlusMatchAt(s, i) THEN i
    ELSE FirstPlusMatch(s, i + 1)

\* A variant that looks for "N+ years" / "N years" before it looks for a range
extract_experience_years_plus_first(text) ==
    IF Len(text) = 0 THEN << 0, 0 >>
    ELSE
    LET text_lower  == ToLower(text)
        range_match == FirstRangeMatch(text_lower, 1)
        plus_match  == FirstPlusMatch(text_lower, 1)
    IN  IF plus_match > 0
        THEN LET min_years == ParseInt(SubSeq(text_lower, plus_match,
                                              DigitRunEnd(text_lower, plus_match) - 1))
             IN  << min_years, min_years + 5 >>
        ELSE IF range_match > 0
        THEN LET e1 == DigitRunEnd(text_lower, range_match)
                 b2 == SkipSpaces(text_lower, SkipSpaces(text_lower, e1) + 1)
                 e2 == DigitRunEnd(text_lower, b2)
             IN  << ParseInt(SubSeq(text_lower, range_match, e1 - 1)),
                    ParseInt(SubSeq(text_lower, b2, e2 - 1)) >>
        ELSE IF \/ Contains(text_lower, <<"f","r","e","s","h","e","r">>)
                \/ Contains(text_lower, <<"e","n","t","r","y"," ","l","e","v","e","l">>)
                \/ Contains(text_lower, <<"g","r","a","d","u","a","t","e">>)
        THEN << 0, 2 >>
        ELSE << 0, 0 >>

\* Config.extract_experience_years
extract_experience_years(text) ==
    IF Len(text) = 0 THEN << 0, 0 >>
    ELSE
    LET text_lower  == ToLower(text)
        range_match == FirstRangeMatch(text_lower, 1)
        plus_match  == FirstPlusMatch(text_lower, 1)
    IN  IF range_match > 0
        THEN LET e1 == DigitRunEnd(text_lower, range_match)
                 b2 == SkipSpaces(text_lower, SkipSpaces(text_lower, e1) + 1)
                 e2 == DigitRunEnd(text_lower, b2)
             IN  << ParseInt(SubSeq(text_lower, range_match, e1 - 1)),
                    ParseInt(SubSeq(text_lower, b2, e2 - 1)) >>
        ELSE IF plus_match > 0
        THEN LET min_years == ParseInt(SubSeq(text_lower, plus_match,
                                              DigitRunEnd(text_lower, plus_match) - 1))
             IN  << min_years, min_years + 5 >>
        ELSE IF \/ Contains(text_lower, <<"f","r","e","s","h","e","r">>)
                \/ Contains(text_lower, <<"e","n","t","r","y"," ","l","e","v","e","l">>)
                \/ Contains(text_lower, <<"g","r","a","d","u","a","t","e">>)
        THEN << 0, 2 >>
        ELSE << 0, 0 >>

----------------------------------------------------------------------------
(* What a request to the language model can come back with.  The reply is  *)
(* the environment's choice; the code only sees one of these outcomes.     *)
(*   raise      the request raised (transport error, timeout, API error)   *)
(*   invalid    json.loads raised on the text                              *)
(*   not_object the text is JSON but no object (a list, a number, null...) *)
(*              and the field handling raises TypeError on it              *)
(*   names      the text is a JSON string or list in which every name the  *)
(*              code looks for with "in" is found, so no statement raises  *)
(*   object     the text is a JSON object: value is the dict               *)

Raise     == [kind |-> "raise",      value |-> NoDict]
Invalid   == [kind |-> "invalid",    value |-> NoDict]
NotObject == [kind |-> "not_object", value |-> NoDict]
Names     == [kind |-> "names",      value |-> NoDict]
Object(d) == [kind |-> "object",     value |-> d]

\* a JSON value that is no string and counts as true (a number, a list)
NonString == << "NonString" >>

\* d without key k
Without(d, k) == [x \in (DOMAIN d) \ {k} |-> d[x]]

----------------------------------------------------------------------------
(* validation_agent.py                                                     *)

\* quality_score below which validate_job_batch skips a job, and above
\* which final_valid needs it
MIN_QUALITY == 40
\* confidence_score that final_valid needs
MIN_CONFIDENCE == 60
\* experience_gap that validate_job_batch tolerates
GAP_TOLERANCE == 2

\* A variant of check 6 without the tolerances of 1 year below the minimum
\* and 3 years above the maximum
ExperienceIssueNoTolerance(job, user_exp) ==
    LET match_analysis   == job.match_analysis
        experience_match == Get(match_analysis, "experience_match", FALSE)
        required_exp     == Get(match_analysis, "required_experience", << >>)
        range            == extract_experience_years(required_exp)
    IN  IF experience_match \/ ~(range[1] > 0) THEN << >>
        ELSE IF user_exp < range[1]
             THEN << [issue |-> << "Required {min_exp}+ years, user has {user_experience} years",
                                  range[1], user_exp >>,
                      penalty |-> 20, invalidates |-> FALSE] >>
        ELSE IF user_exp > range[2]
             THEN << [issue |-> << "Job may be too junior (requires {min_exp}-{max_exp} years)",
                                  range[1], range[2] >>,
                      penalty |-> 15, invalidates |-> FALSE] >>
        ELSE << >>

\* ValidationAgent.validate_job_data, check 6: the issue and the penalty
ExperienceIssue(job, user_exp) ==
    LET match_analysis   == job.match_analysis
        experience_match == Get(match_analysis, "experience_match", FALSE)
        required_exp     == Get(match_analysis, "required_experience", << >>)
        range            == extract_experience_years(required_exp)
        min_exp          == range[1]
        max_exp          == range[2]
    IN  IF experience_match \/ ~(min_exp > 0) THEN << >>
        ELSE IF user_exp < min_exp - 1
             THEN << [issue |-> << "Required {min_exp}+ years, user has {user_experience} years",
                                  min_exp, user_exp >>,
                      penalty |-> 20, invalidates |-> FALSE] >>
        ELSE IF user_exp > max_exp + 3
             THEN << [issue |-> << "Job may be too junior (requires {min_exp}-{max_exp} years)",
                                  min_exp, max_exp >>,
                      penalty |-> 15, invalidates |-> FALSE] >>
        ELSE << >>

\* ValidationAgent.validate_job_data, checks 1 to 6 in order: the failed ones
FailedChecks(job, user_exp) ==
    (IF ~is_valid_job_url(job.link)
     THEN << [issue |-> << "Invalid or missing job URL" >>, penalty |-> 30, invalidates |-> TRUE] >> ELSE << >>)
    \o
    (IF Len(job.company) = 0 \/ job.company = NA
     THEN << [issue |-> << "Missing company name" >>, penalty |-> 20, invalidates |-> FALSE] >> ELSE << >>)
    \o
    (IF Len(job.title) = 0 \/ job.title = NA \/ Len(job.title) < 5
     THEN << [issue |-> << "Invalid or too short job title" >>, penalty |-> 25, invalidates |-> FALSE] >> ELSE << >>)
    \o
    (IF Len(job.snippet) = 0 \/ Len(job.snippet) < 50
     THEN << [issue |-> << "Insufficient job description" >>, penalty |-> 15, invalidates |-> FALSE] >> ELSE << >>)
    \o
    (LET snippet_text == job.snippet \o << " " >> \o job.title IN
     IF Len(snippet_text) > 0 /\ ~is_indian_location(snippet_text)
     THEN << [issue |-> << "Job location may not be in India" >>, penalty |-> 10, invalidates |-> FALSE] >> ELSE << >>)
    \o
    ExperienceIssue(job, user_exp)

RECURSIVE SumPenalties(_)
SumPenalties(checks) ==
    IF Len(checks) = 0 THEN 0
    ELSE checks[1].penalty + SumPenalties(Tail(checks))

\* A variant that floors quality_score at 0
ValidationResultsFloored(failed) ==
    [ is_valid      |-> \A i \in 1..Len(failed) : ~failed[i].invalidates,
      issues        |-> [i \in 1..Len(failed) |-> failed[i].issue],
      quality_score |-> IF SumPenalties(failed) > 100 THEN 0 ELSE 100 - SumPenalties(failed),
      corrections   |-> NoDict ]

\* A variant in which any failed check makes the job invalid
ValidationResultsAnyFails(failed) ==
    [ is_valid      |-> Len(failed) = 0,
      issues        |-> [i \in 1..Len(failed) |-> failed[i].issue],
      quality_score |-> 100 - SumPenalties(failed),
      corrections   |-> NoDict ]

\* ValidationAgent.validate_job_data
ValidationResults(failed) ==
    [ is_valid      |-> \A i \in 1..Len(failed) : ~failed[i].invalidates,
      issues        |-> [i \in 1..Len(failed) |-> failed[i].issue],
      quality_score |-> 100 - SumPenalties(failed),
      corrections   |-> NoDict ]

validate_job_data(job, user_exp) ==
    CHOOSE validation_results \in
        {ValidationResults(failed) : failed \in {FailedChecks(job, user_exp)}} : TRUE

\* ValidationAgent.verify_with_ai: required_fields
VERIFY_REQUIRED_FIELDS ==
    << "is_valid_job", "matches_role", "matches_company", "is_india_location",
       "experience_appropriate", "is_direct_link", "confidence_score" >>

\* A variant of the except branch that rejects: every flag false, no confidence
VerifyDefaultPessimistic ==
    [ is_valid_job              |-> FALSE,
      matches_role              |-> FALSE,
      matches_company           |-> FALSE,
      is_india_location         |-> FALSE,
      experience_appropriate    |-> FALSE,
      required_experience_range |-> <<"N","o","t"," ","s","p","e","c","i","f","i","e","d">>,
      experience_gap            |-> 0,
      is_direct_link            |-> FALSE,
      confidence_score          |-> 0,
      reasoning                 |-> <<"V","a","l","i","d","a","t","i","o","n"," ","e","r","r","o","r">>,
      error                     |-> <<"e","x","c","e","p","t","i","o","n">> ]

\* A variant of the except branch whose confidence passes the threshold
VerifyDefaultConfident ==
    [ is_valid_job              |-> TRUE,
      matches_role              |-> TRUE,
      matches_company           |-> TRUE,
      is_india_location         |-> TRUE,
      experience_appropriate    |-> TRUE,
      required_experience_range |-> <<"N","o","t"," ","s","p","e","c","i","f","i","e","d">>,
      experience_gap            |-> 0,
      is_direct_link            |-> TRUE,
      confidence_score          |-> 60,
      reasoning                 |-> <<"V","a","l","i","d","a","t","i","o","n"," ","e","r","r","o","r">>,
      error                     |-> <<"e","x","c","e","p","t","i","o","n">> ]

\* ValidationAgent.verify_with_ai: the dict of the except branch
VerifyDefault ==
    [ is_valid_job              |-> TRUE,
      matches_role              |-> TRUE,
      matches_company           |-> TRUE,
      is_india_location         |-> TRUE,
      experience_appropriate    |-> TRUE,
      required_experience_range |-> <<"N","o","t"," ","s","p","e","c","i","f","i","e","d">>,
      experience_gap            |-> 0,
      is_direct_link            |-> TRUE,
      confidence_score          |-> 50,
      reasoning                 |-> <<"V","a","l","i","d","a","t","i","o","n"," ","e","r","r","o","r">>,
      error                     |-> <<"e","x","c","e","p","t","i","o","n">> ]

\* ValidationAgent.verify_with_ai: "Ensure all fields exist"
RECURSIVE VerifyBackfill(_, _)
VerifyBackfill(res, n) ==
    IF n > Len(VERIFY_REQUIRED_FIELDS) THEN res
    ELSE LET field == VERIFY_REQUIRED_FIELDS[n] IN
         VerifyBackfill(
            IF field \in DOMAIN res THEN res
            ELSE Put(res, field, IF field # "confidence_score" THEN FALSE ELSE 0),
            n + 1)

\* ValidationAgent.verify_with_ai: "Extract experience gap if not provided"
VerifyGap(res, user_exp) ==
    IF "experience_gap" \in DOMAIN res THEN res
    ELSE LET req_exp_str == Get(res, "required_experience_range", << >>)
             min_exp     == extract_experience_years(req_exp_str)[1]
         IN  Put(res, "experience_gap", IF min_exp > 0 THEN user_exp - min_exp ELSE 0)

\* ValidationAgent.verify_with_ai: extract_experience_years calls .lower() on
\* the required_experience_range of the reply, which raises AttributeError on
\* a value that is no str (and is not empty, 0 or null)
VerifyGapRaises(res) ==
    /\ "experience_gap" \notin DOMAIN res
    /\ Get(res, "required_experience_range", << >>) = NonString

\* ValidationAgent.verify_with_ai, given what the model request came back with.
\* (For outcome "names" the function returns the str or list itself: see
\* ReturnsNoDict; the caller then fails on .get.)
verify_with_ai(job, roles, company, user_exp, outcome) ==
    IF outcome.kind = "object" /\ ~VerifyGapRaises(outcome.value)
    THEN VerifyGap(VerifyBackfill(outcome.value, 1), user_exp)
    ELSE VerifyDefault

\* verify_with_ai returns a value that is no dict
ReturnsNoDict(outcome) == outcome.kind = "names"

\* validate_job_batch: matches_any_role
matches_any_role(job, roles) ==
    \E job_title_lower \in {ToLower(job.title)} :
    \E r \in 1..Len(roles) : Contains(job_title_lower, ToLower(roles[r]))

\* A variant of the skip that does not look at experience_appropriate
GapSkipAnyLargeGap(ai) ==
    LET gap == Get(ai, "experience_gap", 0)
        experience_gap == IF gap < 0 THEN -gap ELSE gap
    IN  experience_gap > GAP_TOLERANCE

\* validate_job_batch: the skip for jobs that are too junior or too senior
GapSkip(ai) ==
    LET experience_appropriate == Get(ai, "experience_appropriate", FALSE)
        gap == Get(ai, "experience_gap", 0)
        experience_gap == IF gap < 0 THEN -gap ELSE gap
    IN  experience_gap > GAP_TOLERANCE /\ ~experience_appropriate

\* A variant of the combination rule that also asks for matches_role
FinalValidWithRole(basic, ai) ==
    /\ basic["is_valid"]
    /\ basic["quality_score"] >= MIN_QUALITY
    /\ Get(ai, "is_valid_job", FALSE)
    /\ Get(ai, "matches_role", FALSE)
    /\ Get(ai, "is_india_location", FALSE)
    /\ Get(ai, "experience_appropriate", FALSE)
    /\ Get(ai, "confidence_score", 0) >= MIN_CONFIDENCE

\* validate_job_batch: the value stored under "final_valid"
FinalValid(basic, ai) ==
    /\ basic["is_valid"]
    /\ basic["quality_score"] >= MIN_QUALITY
    /\ Get(ai, "is_valid_job", FALSE)
    /\ Get(ai, "is_india_location", FALSE)
    /\ Get(ai, "experience_appropriate", FALSE)
    /\ Get(ai, "confidence_score", 0) >= MIN_CONFIDENCE

\* validate_job_batch: "Combine validations", the dict stored as job['validation']
Combine(basic, ai) ==
    Put(Merge(basic, ai), "final_valid", FinalValid(basic, ai))

\* A variant of the last test of the loop that appends every combined job
KeepAll(validation) == TRUE

\* A variant of the last test that appends a job only to an empty output
KeepFirstOnly(validation) == validation["final_valid"] /\ Len(validated_jobs) = 0

\* validate_job_batch: "Only include if passed all validations"
Keep(validation) == validation["final_valid"]

\* A variant of the quality prefilter that also stops a job Gate 1 found
\* invalid
QualitySkipInvalid(basic) == basic["quality_score"] < MIN_QUALITY \/ ~basic["is_valid"]

\* A variant of the quality prefilter with a lower threshold
QualitySkipLenient(basic) == basic["quality_score"] < 30

\* validate_job_batch: the quality prefilter
QualitySkip(basic) == basic["quality_score"] < MIN_QUALITY

\* One iteration of the loop of validate_job_batch, on job idx + 1, with the
\* reply of the model drawn from Outcomes if the iteration asks for one.
ValidateJob(Outcomes) ==
    /\ pc = "validate"
    /\ idx < Len(jobs)
    /\ idx' = idx + 1
    /\ \E basic \in {validate_job_data(jobs[idx + 1], user_experience)} :
       /\ basic_validation' = basic
       /\ IF QualitySkip(basic)
          THEN /\ branch' = Append(branch, "low_quality")
               /\ verify_log' = Append(verify_log, "none")
               /\ UNCHANGED <<pc, jobs, validated_jobs, ai_validation, gate2_calls, model_calls>>
          ELSE IF ~matches_any_role(jobs[idx + 1], job_roles)
          THEN /\ branch' = Append(branch, "no_role")
               /\ verify_log' = Append(verify_log, "none")
               /\ UNCHANGED <<pc, jobs, validated_jobs, ai_validation, gate2_calls, model_calls>>
          ELSE \E outcome \in Outcomes :
               /\ gate2_calls' = [gate2_calls EXCEPT ![idx + 1] = @ + 1]
               /\ verify_log' = Append(verify_log, outcome.kind)
               /\ model_calls' = model_calls + 1
               /\ IF ReturnsNoDict(outcome)
                  THEN \* line 189: .get on a str or list raises AttributeError
                       /\ pc' = "raised"
                       /\ branch' = Append(branch, "raised")
                       /\ UNCHANGED <<jobs, validated_jobs, ai_validation>>
                  ELSE
                  \E ai \in {verify_with_ai(jobs[idx + 1], job_roles, jobs[idx + 1].company,
                                            user_experience, outcome)} :
                  /\ ai_validation' = ai
                  /\ pc' = pc
                  /\ IF GapSkip(ai)
                     THEN /\ branch' = Append(branch, "gap")
                          /\ UNCHANGED <<jobs, validated_jobs>>
                     ELSE \E validation \in {Combine(basic, ai)} :
                          /\ jobs' = [jobs EXCEPT ![idx + 1].validation = validation]
                          /\ IF Keep(validation)
                             THEN /\ validated_jobs' = Append(validated_jobs, jobs'[idx + 1])
                                  /\ branch' = Append(branch, "accepted")
                             ELSE /\ validated_jobs' = validated_jobs
                                  /\ branch' = Append(branch, "rejected")
    /\ UNCHANGED <<resume, companies, job_roles, user_experience, company_idx, query_idx,
                   all_results, seen_links, score_idx, search_calls, score_log,
                   call_in, call_out, result>>

----------------------------------------------------------------------------
(* agent.py                                                                *)

\* None where the code expects a str (a JSON null in a search result)
None == << "None" >>

\* str(n) for an int
RECURSIVE IntToText(_)
IntToText(n) ==
    IF n < 0 THEN << "-" >> \o IntToText(-n)
    ELSE IF n < 10 THEN << Digits[n + 1] >>
    ELSE IntToText(n \div 10) \o << Digits[(n % 10) + 1] >>

\* f"{min_exp}-{max_exp} years"
RangeText(min_exp, max_exp) ==
    IntToText(min_exp) \o << "-" >> \o IntToText(max_exp) \o <<" ","y","e","a","r","s">>

NotSpecified == <<"N","o","t"," ","s","p","e","c","i","f","i","e","d">>

\* analyze_job_match: required_fields
SCORE_REQUIRED_FIELDS == << "match_score", "matching_skills", "missing_skills", "recommendation" >>

\* analyze_job_match: the default of a missing required field
ScoreFieldDefault(field) ==
    IF field = "match_score" THEN 50
    ELSE IF field \in {"matching_skills", "missing_skills"} THEN << >>
    ELSE <<"R","e","v","i","e","w">>

\* A variant of the backfill that leaves the parsed object as it is
ScoreBackfillNone(res, n) == res

RECURSIVE ScoreBackfill(_, _)
ScoreBackfill(res, n) ==
    IF n > Len(SCORE_REQUIRED_FIELDS) THEN res
    ELSE LET field == SCORE_REQUIRED_FIELDS[n] IN
         ScoreBackfill(IF field \in DOMAIN res THEN res
                       ELSE Put(res, field, ScoreFieldDefault(field)),
                       n + 1)

\* analyze_job_match, try branch: the fields set when the model left them out
ScoreDerived(res, range, job_snippet, user_exp) ==
    LET min_exp == range[1]
        max_exp == range[2]
        r1 == IF "required_experience" \notin DOMAIN res \/ Len(res["required_experience"]) = 0
              THEN Put(res, "required_experience",
                       IF min_exp > 0 \/ max_exp > 0
                       THEN RangeText(min_exp, max_exp) ELSE NotSpecified)
              ELSE res
        r2 == IF "experience_match" \notin DOMAIN r1
              THEN Put(r1, "experience_match", user_exp >= min_exp)
              ELSE r1
    IN  IF "location_india" \notin DOMAIN r2
        THEN Put(r2, "location_india", is_indian_location(job_snippet))
        ELSE r2

\* A variant of the except branch that scores the failure 0 / "Error"
ScoreDefaultZero(range, job_snippet, user_exp) ==
    LET min_exp == range[1]
        max_exp == range[2]
    IN  [ match_score         |-> 0,
          matching_skills     |-> << >>,
          missing_skills      |-> << >>,
          required_experience |-> IF min_exp > 0 THEN RangeText(min_exp, max_exp)
                                  ELSE NotSpecified,
          experience_match    |-> user_exp >= min_exp,
          location_india      |-> is_indian_location(job_snippet),
          recommendation      |-> <<"E","r","r","o","r">>,
          error               |-> <<"e","x","c","e","p","t","i","o","n">> ]

\* analyze_job_match, except branch
ScoreDefault(range, job_snippet, user_exp) ==
    LET min_exp == range[1]
        max_exp == range[2]
    IN  [ match_score         |-> 50,
          matching_skills     |-> << >>,
          missing_skills      |-> << >>,
          required_experience |-> IF min_exp > 0 THEN RangeText(min_exp, max_exp)
                                  ELSE NotSpecified,
          experience_match    |-> user_exp >= min_exp,
          location_india      |-> is_indian_location(job_snippet),
          recommendation      |-> <<"R","e","v","i","e","w">>,
          error               |-> <<"e","x","c","e","p","t","i","o","n">> ]

\* A variant of analyze_job_match that tags an object it had to complete
analyze_job_match_tagging(job_title, job_snippet, job_url, resume_text, user_exp, target_roles, outcome) ==
    CHOOSE analysis \in
        { IF outcome.kind = "object"
          THEN IF \A n \in 1..Len(SCORE_REQUIRED_FIELDS) :
                     SCORE_REQUIRED_FIELDS[n] \in DOMAIN outcome.value
               THEN ScoreBackfill(ScoreDerived(outcome.value, range, job_snippet, user_exp), 1)
               ELSE Put(ScoreBackfill(ScoreDerived(outcome.value, range, job_snippet, user_exp), 1),
                        "error", <<"m","i","s","s","i","n","g"," ","f","i","e","l","d">>)
          ELSE ScoreDefault(range, job_snippet, user_exp)
          : range \in {extract_experience_years(job_snippet \o << " " >> \o job_title)} } : TRUE

\* JobSearchAgent.analyze_job_match, given what the model request came back
\* with.  Only an object gets through the try branch: on any other JSON value
\* the test or the assignment of required_experience raises TypeError.
analyze_job_match(job_title, job_snippet, job_url, resume_text, user_exp, target_roles, outcome) ==
    CHOOSE analysis \in
        { IF outcome.kind = "object"
          THEN ScoreBackfill(ScoreDerived(outcome.value, range, job_snippet, user_exp), 1)
          ELSE ScoreDefault(range, job_snippet, user_exp)
          : range \in {extract_experience_years(job_snippet \o << " " >> \o job_title)} } : TRUE

\* analyze_job_match, line 132: str + str raises TypeError on None, before the try
ScoreRaises(job_title, job_snippet) == job_title = None \/ job_snippet = None

\* queries per role in search_jobs_serper
QUERIES_PER_ROLE == 4
\* data['organic'][:3]
RESULTS_PER_QUERY == 3

\* seq[:n]
Slice(seq, n) == SubSeq(seq, 1, IF Len(seq) < n THEN Len(seq) ELSE n)

\* A variant that keeps a result whether or not its link was seen before
RECURSIVE KeepResultsSeenOrNot(_, _, _)
KeepResultsSeenOrNot(organic, seen, role) ==
    IF Len(organic) = 0 THEN << >>
    ELSE LET res  == Head(organic)
             link == Get(res, "link", << >>)
         IN  IF Len(link) > 0 /\ is_valid_job_url(link)
             THEN << Put(res, "search_role", role) >>
                  \o KeepResultsSeenOrNot(Tail(organic), seen, role)
             ELSE KeepResultsSeenOrNot(Tail(organic), seen, role)

\* A variant that keeps a result without testing its link as a job URL
RECURSIVE KeepResultsAnyUrl(_, _, _)
KeepResultsAnyUrl(organic, seen, role) ==
    IF Len(organic) = 0 THEN << >>
    ELSE LET res  == Head(organic)
             link == Get(res, "link", << >>)
         IN  IF Len(link) > 0 /\ link \notin seen
             THEN << Put(res, "search_role", role) >>
                  \o KeepResultsAnyUrl(Tail(organic), seen \cup {link}, role)
             ELSE KeepResultsAnyUrl(Tail(organic), seen, role)

\* search_jobs_serper: the results of one response that are kept, in order
RECURSIVE KeepResults(_, _, _)
KeepResults(organic, seen, role) ==
    IF Len(organic) = 0 THEN << >>
    ELSE LET res  == Head(organic)
             link == Get(res, "link", << >>)
         IN  IF Len(link) > 0 /\ link \notin seen /\ is_valid_job_url(link)
             THEN << Put(res, "search_role", role) >>
                  \o KeepResults(Tail(organic), seen \cup {link}, role)
             ELSE KeepResults(Tail(organic), seen, role)

\* the links of a list of results
LinksOf(results) == {results[i]["link"] : i \in 1..Len(results)}

\* search_all_companies: the precondition returns
EmptyResult == [jobs |-> << >>, validation_report |-> << >>]

\* A variant of the precondition that does not look at the roles
StartWithoutRoleCheck ==
    /\ pc = "start"
    /\ IF Len(resume) = 0 \/ Len(companies) = 0
       THEN /\ result' = EmptyResult
            /\ pc' = "done"
            /\ UNCHANGED company_idx
       ELSE /\ pc' = "search"
            /\ company_idx' = 1
            /\ UNCHANGED result
    /\ UNCHANGED <<resume, companies, job_roles, user_experience, query_idx, all_results,
                   seen_links, score_idx, jobs, idx, validated_jobs,
                   basic_validation, ai_validation, branch, gate2_calls, verify_log,
                   search_calls, model_calls, score_log, call_in, call_out>>

\* search_all_companies, lines 226-241
Start ==
    /\ pc = "start"
    /\ IF Len(resume) = 0 \/ Len(companies) = 0 \/ Len(job_roles) = 0
       THEN /\ result' = EmptyResult
            /\ pc' = "done"
            /\ UNCHANGED company_idx
       ELSE /\ pc' = "search"
            /\ company_idx' = 1
            /\ UNCHANGED result
    /\ UNCHANGED <<resume, companies, job_roles, user_experience, query_idx, all_results,
                   seen_links, score_idx, jobs, idx, validated_jobs,
                   basic_validation, ai_validation, branch, gate2_calls, verify_log,
                   search_calls, model_calls, score_log, call_in, call_out>>

\* A variant in which a query that fails ends the search and loses the
\* results collected so far
SerperQueryFatal(Responses) ==
    /\ pc = "search"
    /\ query_idx < QUERIES_PER_ROLE * Len(job_roles)
    /\ search_calls' = search_calls + 1
    /\ \E response \in Responses :
       \E job_role \in {job_roles[(query_idx \div QUERIES_PER_ROLE) + 1]} :
          IF response.kind = "ok" /\ "organic" \in DOMAIN response.data
          THEN \E kept \in {KeepResults(Slice(response.data["organic"], RESULTS_PER_QUERY),
                                        seen_links, job_role)} :
               /\ all_results' = all_results \o kept
               /\ seen_links' = seen_links \cup LinksOf(kept)
               /\ query_idx' = query_idx + 1
          ELSE /\ all_results' = << >>
               /\ seen_links' = {}
               /\ query_idx' = QUERIES_PER_ROLE * Len(job_roles)
    /\ UNCHANGED <<pc, resume, companies, job_roles, user_experience, company_idx, score_idx,
                   jobs, idx, validated_jobs, basic_validation, ai_validation,
                   branch, gate2_calls, verify_log, model_calls, score_log, call_in,
                   call_out, result>>

\* search_jobs_serper: one query of the loops of lines 79-115, the response
\* drawn from Responses
SerperQuery(Responses) ==
    /\ pc = "search"
    /\ query_idx < QUERIES_PER_ROLE * Len(job_roles)
    /\ query_idx' = query_idx + 1
    /\ search_calls' = search_calls + 1
    /\ \E response \in Responses :
       \E job_role \in {job_roles[(query_idx \div QUERIES_PER_ROLE) + 1]} :
          IF response.kind = "ok" /\ "organic" \in DOMAIN response.data
          THEN \E kept \in {KeepResults(Slice(response.data["organic"], RESULTS_PER_QUERY),
                                        seen_links, job_role)} :
               /\ all_results' = all_results \o kept
               /\ seen_links' = seen_links \cup LinksOf(kept)
          ELSE UNCHANGED <<all_results, seen_links>>
    /\ UNCHANGED <<pc, resume, companies, job_roles, user_experience, company_idx, score_idx,
                   jobs, idx, validated_jobs, basic_validation, ai_validation,
                   branch, gate2_calls, verify_log, model_calls, score_log, call_in,
                   call_out, result>>

\* search_jobs_serper returns; search_all_companies, line 252
SearchReturn ==
    /\ pc = "search"
    /\ query_idx = QUERIES_PER_ROLE * Len(job_roles)
    /\ pc' = "score"
    /\ score_idx' = 0
    /\ UNCHANGED <<resume, companies, job_roles, user_experience, company_idx, query_idx,
                   all_results, seen_links, jobs, idx, validated_jobs,
                   basic_validation, ai_validation, branch, gate2_calls, verify_log,
                   search_calls, model_calls, score_log, call_in, call_out, result>>

\* search_all_companies: job_info of lines 256-263
JobInfo(company, job) ==
    [ company        |-> company,
      title          |-> Get(job, "title", NA),
      link           |-> Get(job, "link", NA),
      snippet        |-> Get(job, "snippet", NA),
      search_role    |-> Get(job, "search_role", << >>),
      match_analysis |-> NoDict,
      validation     |-> NoDict ]

\* search_all_companies: the validation phase begins, line 289
EnterValidation ==
    /\ pc' = "validate"
    /\ idx' = 0
    /\ validated_jobs' = << >>
    /\ branch' = << >>
    /\ verify_log' = << >>
    /\ gate2_calls' = [i \in 1..Len(jobs') |-> 0]

\* A variant of the loop body in which an error drops the candidates of the
\* failing company and the loop goes on with the next company
ScoreJobSkipsCompany(Outcomes) ==
    /\ pc = "score"
    /\ score_idx < Len(all_results)
    /\ \E job \in {all_results[score_idx + 1]} :
       IF ScoreRaises(Get(job, "title", << >>), Get(job, "snippet", << >>))
       THEN /\ jobs' = SubSeq(jobs, 1, Len(jobs) - score_idx)
            /\ IF company_idx < Len(companies)
               THEN /\ company_idx' = company_idx + 1
                    /\ pc' = "search"
                    /\ query_idx' = 0
                    /\ all_results' = << >>
                    /\ seen_links' = {}
                    /\ UNCHANGED <<idx, validated_jobs, branch, verify_log, gate2_calls>>
               ELSE /\ EnterValidation
                    /\ UNCHANGED <<company_idx, query_idx, all_results, seen_links>>
            /\ UNCHANGED <<score_idx, model_calls, score_log>>
       ELSE \E outcome \in Outcomes :
            /\ model_calls' = model_calls + 1
            /\ score_log' = Append(score_log, outcome.kind)
            /\ score_idx' = score_idx + 1
            /\ jobs' = Append(jobs,
                   [JobInfo(companies[company_idx], job) EXCEPT !.match_analysis =
                       analyze_job_match(Get(job, "title", << >>), Get(job, "snippet", << >>),
                                         Get(job, "link", << >>), resume, user_experience,
                                         job_roles, outcome)])
            /\ UNCHANGED <<pc, idx, validated_jobs, branch, verify_log, gate2_calls,
                           company_idx, query_idx, all_results, seen_links>>
    /\ UNCHANGED <<resume, companies, job_roles, user_experience,
                   basic_validation, ai_validation, search_calls,
                   call_in, call_out, result>>

\* A variant of the loop body that asks the model a second time when the
\* first request fails
ScoreJobRetries(Outcomes) ==
    /\ pc = "score"
    /\ score_idx < Len(all_results)
    /\ \E job \in {all_results[score_idx + 1]} :
       IF ScoreRaises(Get(job, "title", << >>), Get(job, "snippet", << >>))
       THEN /\ jobs' = jobs
            /\ EnterValidation
            /\ UNCHANGED <<score_idx, model_calls, score_log>>
       ELSE \E first \in Outcomes, outcome \in Outcomes :
            /\ IF first.kind = "object"
               THEN /\ outcome = first
                    /\ model_calls' = model_calls + 1
                    /\ score_log' = Append(score_log, outcome.kind)
               ELSE /\ model_calls' = model_calls + 2
                    /\ score_log' = Append(Append(score_log, first.kind), outcome.kind)
            /\ score_idx' = score_idx + 1
            /\ jobs' = Append(jobs,
                   [JobInfo(companies[company_idx], job) EXCEPT !.match_analysis =
                       analyze_job_match(Get(job, "title", << >>), Get(job, "snippet", << >>),
                                         Get(job, "link", << >>), resume, user_experience,
                                         job_roles, outcome)])
            /\ UNCHANGED <<pc, idx, validated_jobs, branch, verify_log, gate2_calls>>
    /\ UNCHANGED <<resume, companies, job_roles, user_experience, company_idx, query_idx,
                   all_results, seen_links, basic_validation, ai_validation, search_calls,
                   call_in, call_out, result>>

\* search_all_companies: one iteration of the loop of lines 255-275, the reply
\* of the model drawn from Outcomes
ScoreJob(Outcomes) ==
    /\ pc = "score"
    /\ score_idx < Len(all_results)
    /\ \E job \in {all_results[score_idx + 1]} :
       IF ScoreRaises(Get(job, "title", << >>), Get(job, "snippet", << >>))
       THEN \* the except of line 279 ends the loop over the companies
            /\ jobs' = jobs
            /\ EnterValidation
            /\ UNCHANGED <<score_idx, model_calls, score_log>>
       ELSE \E outcome \in Outcomes :
            /\ model_calls' = model_calls + 1
            /\ score_log' = Append(score_log, outcome.kind)
            /\ score_idx' = score_idx + 1
            /\ jobs' = Append(jobs,
                   [JobInfo(companies[company_idx], job) EXCEPT !.match_analysis =
                       analyze_job_match(Get(job, "title", << >>), Get(job, "snippet", << >>),
                                         Get(job, "link", << >>), resume, user_experience,
                                         job_roles, outcome)])
            /\ UNCHANGED <<pc, idx, validated_jobs, branch, verify_log, gate2_calls>>
    /\ UNCHANGED <<resume, companies, job_roles, user_experience, company_idx, query_idx,
                   all_results, seen_links, basic_validation, ai_validation, search_calls,
                   call_in, call_out, result>>

\* search_all_companies: the end of one iteration of the loop of line 249
NextCompany ==
    /\ pc = "score"
    /\ score_idx = Len(all_results)
    /\ jobs' = jobs
    /\ IF company_idx < Len(companies)
       THEN /\ company_idx' = company_idx + 1
            /\ pc' = "search"
            /\ query_idx' = 0
            /\ all_results' = << >>
            /\ seen_links' = {}
            /\ UNCHANGED <<idx, validated_jobs, branch, verify_log, gate2_calls>>
       ELSE /\ EnterValidation
            /\ UNCHANGED <<company_idx, query_idx, all_results, seen_links>>
    /\ UNCHANGED <<resume, companies, job_roles, user_experience, score_idx,
                   basic_validation, ai_validation, search_calls, model_calls, score_log,
                   call_in, call_out, result>>

\* A variant in which the last count is what the four others leave
FilteringReasonsResidual(all, filtered_count) ==
    LET invalid_url == Cardinality({i \in 1..Len(all) : ~is_valid_job_url(all[i].link)})
        not_india   == Cardinality({i \in 1..Len(all) :
                           ~Get(all[i].match_analysis, "location_india", TRUE)})
        mismatch    == Cardinality({i \in 1..Len(all) :
                           ~Get(all[i].match_analysis, "experience_match", FALSE)})
        low         == Cardinality({i \in 1..Len(all) :
                           Get(all[i].validation, "confidence_score", 100) < 60})
    IN  << << "Invalid URL", invalid_url >>,
           << "Not India Location", not_india >>,
           << "Experience Mismatch", mismatch >>,
           << "Low Confidence", low >>,
           << "Doesn't Match Role",
              filtered_count - (invalid_url + not_india + mismatch + low) >> >>

\* search_all_companies: filtering_reasons, lines 294-300
FilteringReasons(all, filtered_count) ==
    << << "Invalid URL",
          Cardinality({i \in 1..Len(all) : ~is_valid_job_url(all[i].link)}) >>,
       << "Not India Location",
          Cardinality({i \in 1..Len(all) : ~Get(all[i].match_analysis, "location_india", TRUE)}) >>,
       << "Experience Mismatch",
          Cardinality({i \in 1..Len(all) : ~Get(all[i].match_analysis, "experience_match", FALSE)}) >>,
       << "Low Confidence",
          Cardinality({i \in 1..Len(all) :
                          Get(all[i].validation, "confidence_score", 100) < MIN_CONFIDENCE}) >>,
       << "Doesn't Match Role", filtered_count >> >>

\* A variant that divides by 1 when original_count is 0
AccuracyTenthsOverOne(original_count, validated_count) ==
    IF original_count > 0
    THEN (2000 * validated_count + original_count) \div (2 * original_count)
    ELSE 1000 * validated_count

\* f"{accuracy_rate:.1f}", as the number of tenths
AccuracyTenths(original_count, validated_count) ==
    IF original_count > 0
    THEN (2000 * validated_count + original_count) \div (2 * original_count)
    ELSE 0

\* ValidationAgent.generate_validation_report: the numbers and the reason
\* lines the text is made of, in the order they are written
generate_validation_report(original_count, validated_count, filtered_reasons, user_exp) ==
    << [ user_experience |-> user_exp,
         original_count  |-> original_count,
         validated_count |-> validated_count,
         filtered_out    |-> original_count - validated_count,
         reasons         |-> SelectSeq(filtered_reasons, LAMBDA r : r[2] > 0),
         accuracy_tenths |-> AccuracyTenths(original_count, validated_count) ] >>

\* search_all_companies: lines 286-325, after validate_job_batch has returned
Report ==
    /\ pc = "validate"
    /\ idx = Len(jobs)
    /\ pc' = "done"
    /\ \E original_count \in {Len(jobs)} :
       \E filtered_count \in {Len(jobs) - Len(validated_jobs)} :
          result' =
            [ jobs              |-> validated_jobs,
              validation_report |->
                  generate_validation_report(original_count, Len(validated_jobs),
                      FilteringReasons(jobs, filtered_count), user_experience),
              stats |-> [ original_count  |-> original_count,
                          validated_count |-> Len(validated_jobs),
                          filtered_count  |-> filtered_count ] ]
    /\ UNCHANGED <<resume, companies, job_roles, user_experience, company_idx, query_idx,
                   all_results, seen_links, score_idx, jobs, idx, validated_jobs,
                   basic_validation, ai_validation, branch, gate2_calls, verify_log,
                   search_calls, model_calls, score_log, call_in, call_out>>


\* get_recommendations: sorted_jobs keeps 10 jobs, line 337
SORTED_KEPT == 10

\* get_recommendations: the summary lists 5 jobs, line 343
SUMMARY_KEPT == 5

\* the fields of a dict whose value is null (None): they are listed under
\* the key "null" and have no entry of their own
NullFields(dict) == Get(dict, "null", {})

\* get_recommendations: the sort key of line 334, for a score that is a number
match_score(job) == Get(job.match_analysis, "match_score", 0)

\* get_recommendations: sorted() compares the keys of two jobs as soon as
\* there are two, and None compared with anything is a TypeError
SortRaises(job_list) ==
    /\ Len(job_list) >= 2
    /\ \E i \in 1..Len(job_list) : "match_score" \in NullFields(job_list[i].match_analysis)

\* sorted(..., reverse=True) is stable: a job goes behind the jobs already
\* placed whose score is at least its own
InsertByScore(sorted, job) ==
    LET k == Cardinality({i \in 1..Len(sorted) : match_score(sorted[i]) >= match_score(job)})
    IN  SubSeq(sorted, 1, k) \o << job >> \o SubSeq(sorted, k + 1, Len(sorted))

\* get_recommendations: sorted(jobs, key=..., reverse=True), lines 332-336
RECURSIVE SortedByScore(_)
SortedByScore(job_list) ==
    IF Len(job_list) = 0 THEN << >>
    ELSE InsertByScore(SortedByScore(SubSeq(job_list, 1, Len(job_list) - 1)),
                       job_list[Len(job_list)])

\* get_recommendations: one line of jobs_summary, lines 341-344
SummaryLine(job) ==
    [ company |-> job.company,
      title   |-> job.title,
      score   |-> IF "match_score" \in NullFields(job.match_analysis)
                  THEN None ELSE match_score(job) ]

\* texts get_recommendations returns
NoJobsText == <<"N","o"," ","j","o","b","s"," ","f","o","u","n","d"," ","t","o"," ","a","n","a","l","y","z","e",".">>
ErrorText  == <<"E","r","r","o","r"," ","g","e","n","e","r","a","t","i","n","g"," ","r","e","c","o","m","m","e","n","d","a","t","i","o","n","s",":"," ","e","x","c","e","p","t","i","o","n">>

\* the text of a reply of the model
Text(content) == [kind |-> "text", value |-> content]

\* JobSearchAgent.get_recommendations: what the call does, the reply of the
\* model being outcome.  raised: an exception leaves the function;
\* model_calls: the requests made; prompt: what the one request is given
get_recommendations(job_list, user_exp, outcome) ==
    IF Len(job_list) = 0
    THEN [raised |-> FALSE, text |-> NoJobsText, model_calls |-> 0, prompt |-> << >>]
    ELSE IF SortRaises(job_list)
    THEN [raised |-> TRUE, text |-> << >>, model_calls |-> 0, prompt |-> << >>]
    ELSE LET sorted_jobs == Slice(SortedByScore(job_list), SORTED_KEPT)
             experience_matched ==
                 SelectSeq(sorted_jobs,
                           LAMBDA j : Get(j.match_analysis, "experience_match", FALSE))
             jobs_summary ==
                 [i \in 1..Len(Slice(sorted_jobs, SUMMARY_KEPT)) |-> SummaryLine(sorted_jobs[i])]
         IN  [ raised      |-> FALSE,
               text        |-> IF outcome.kind = "text" THEN outcome.value ELSE ErrorText,
               model_calls |-> 1,
               prompt      |-> << [ user_experience    |-> user_exp,
                                    jobs_summary       |-> jobs_summary,
                                    total              |-> Len(job_list),
                                    experience_matches |-> Len(experience_matched) ] >> ]

----------------------------------------------------------------------------
(* database.py                                                             *)

\* str.strip() leaves nothing: the text is empty or all white space
IsBlank(text) == \A i \in 1..Len(text) : IsSpace(text[i])

\* self.collection.get(ids=["resume_001"]) of a collection whose document
\* under that id is doc ("" when there is none)
CollectionGet(doc) ==
    IF Len(doc) = 0
    THEN [ids |-> << >>, documents |-> << >>]
    ELSE [ids |-> << "resume_001" >>, documents |-> << doc >>]

\* A variant of store_resume that writes a document only when there is none
store_resume_add_only(doc, resume_text, outcome) ==
    IF IsBlank(resume_text) \/ outcome = "raise"
    THEN [raised |-> TRUE, value |-> FALSE, document |-> doc]
    ELSE [raised |-> FALSE, value |-> TRUE,
          document |-> IF Len(CollectionGet(doc).ids) > 0 THEN doc ELSE resume_text]

\* ResumeDatabase.store_resume: the document of the collection afterwards and
\* what the call gives; outcome is "raise" when the request that writes the
\* document (it computes an embedding) fails
store_resume(doc, resume_text, outcome) ==
    IF IsBlank(resume_text)
    THEN \* ValueError("Resume text is empty"), line 77
         [raised |-> TRUE, value |-> FALSE, document |-> doc]
    ELSE IF outcome = "raise"
    THEN \* collection.update or collection.add raised, re-raised at line 116
         [raised |-> TRUE, value |-> FALSE, document |-> doc]
    ELSE LET existing     == CollectionGet(doc)
             written      == resume_text   \* update (line 92) and add (line 100) alike
             verification == CollectionGet(written)
         IN  IF Len(verification.documents) = 0
             THEN [raised |-> TRUE, value |-> FALSE, document |-> written]
             ELSE [raised |-> FALSE, value |-> TRUE, document |-> written]

\* ResumeDatabase.get_full_resume
get_full_resume(doc) ==
    LET results == CollectionGet(doc)
    IN  IF Len(results.documents) > 0 THEN results.documents[1] ELSE << >>

\* ResumeDatabase.check_resume_exists
check_resume_exists(doc) == Len(CollectionGet(doc).documents) > 0

\* ResumeDatabase.delete_resume: the document of the collection afterwards
\* and the return value
delete_resume(doc) == [value |-> TRUE, document |-> << >>]
----------------------------------------------------------------------------
(* The inputs the specifications draw from                                 *)

\* longest job list given to validate_job_batch
MaxJobs == 2
\* most candidates the search API lets one run collect
MaxCandidates == 2

Link_job    == <<"h","t","t","p","s",":","/","/","a","c","m","e",".","c","o","m","/","j","o","b","s","/","4","1">>
Link_job2   == <<"h","t","t","p","s",":","/","/","j","o","b","s",".","a","c","m","e",".","c","o","m","/","v","i","e","w","?","i","d","=","7">>
Link_plain  == <<"h","t","t","p","s",":","/","/","a","c","m","e",".","c","o","m","/","a","b","o","u","t">>
Company     == <<"A","c","m","e">>
Company2    == <<"G","l","o","b","e","x">>
Title_de    == <<"D","a","t","a"," ","E","n","g","i","n","e","e","r">>
Title_upper == <<"S","E","N","I","O","R"," ","D","A","T","A"," ","E","N","G","I","N","E","E","R">>
Title_sales == <<"S","a","l","e","s"," ","L","e","a","d">>
Snippet_in  == <<"D","a","t","a"," ","E","n","g","i","n","e","e","r"," ","f","o","r"," ","o","u","r"," ","P","u","n","e"," ","o","f","f","i","c","e",","," ","3","-","5"," ","y","e","a","r","s"," ","o","f"," ","e","x","p","e","r","i","e","n","c","e">>
Snippet_uk  == <<"D","a","t","a"," ","E","n","g","i","n","e","e","r"," ","f","o","r"," ","o","u","r"," ","L","o","n","d","o","n"," ","o","f","f","i","c","e",","," ","a","p","p","l","y"," ","o","n"," ","t","h","e"," ","s","i","t","e">>
Snippet_cut == <<"P","u","n","e",","," ","5","+"," ","y","r","s">>
Snippet_new == <<"G","r","a","d","u","a","t","e"," ","t","r","a","i","n","e","e"," ","d","a","t","a"," ","e","n","g","i","n","e","e","r","s",","," ","f","r","e","s","h","e","r","s"," ","w","e","l","c","o","m","e",","," ","C","h","e","n","n","a","i">>
Resume_text == <<"D","a","t","a"," ","e","n","g","i","n","e","e","r",","," ","2"," ","y","e","a","r","s"," ","o","f"," ","S","Q","L"," ","a","n","d"," ","P","y","t","h","o","n">>

\* a match_analysis whose model saw the experience as matching
Analysis_match ==
    [ match_score         |-> 80,
      matching_skills     |-> << <<"s","q","l">> >>,
      missing_skills      |-> << >>,
      required_experience |-> <<"3","-","5"," ","y","e","a","r","s">>,
      experience_match    |-> TRUE,
      location_india      |-> TRUE,
      recommendation      |-> <<"A","p","p","l","y">> ]

\* a match_analysis whose model saw the experience as not matching
Analysis_senior ==
    [ match_score         |-> 40,
      matching_skills     |-> << >>,
      missing_skills      |-> << <<"s","p","a","r","k">> >>,
      required_experience |-> <<"8","-","1","0"," ","y","e","a","r","s">>,
      experience_match    |-> FALSE,
      location_india      |-> FALSE,
      recommendation      |-> <<"S","k","i","p">> ]

MkJob(company, title, link, snippet, analysis) ==
    [ company        |-> company,
      title          |-> title,
      link           |-> link,
      snippet        |-> snippet,
      search_role    |-> << >>,
      match_analysis |-> analysis,
      validation     |-> NoDict ]

\* every check passes: quality_score 100
Job_good   == MkJob(Company, Title_de, Link_job, Snippet_in, Analysis_match)
\* only the URL check fails: is_valid false, quality_score 70
Job_badurl == MkJob(Company, Title_de, Link_plain, Snippet_in, Analysis_match)
\* URL, company and description fail: quality_score 35
Job_poor   == MkJob(<< >>, Title_de, Link_plain, Snippet_cut, Analysis_match)
\* a title that holds none of the roles
Job_sales  == MkJob(Company, Title_sales, Link_job, Snippet_in, Analysis_match)
\* upper-case title; the location and the experience check may fail
Job_senior == MkJob(Company, Title_upper, Link_job2, Snippet_uk, Analysis_senior)
\* a posting for graduates, not scored yet
Job_new    == MkJob(Company, Title_de, Link_job, Snippet_new, NoDict)

JobPool == {Job_good, Job_badurl, Job_poor, Job_sales, Job_senior}

\* the lists of at most n elements of S
RECURSIVE ListsOf(_, _)
ListsOf(S, n) ==
    IF n = 0 THEN {<< >>}
    ELSE LET shorter == ListsOf(S, n - 1)
         IN  shorter \cup {Append(l, x) : l \in {s \in shorter : Len(s) = n - 1}, x \in S}

JobLists == ListsOf(JobPool, MaxJobs)

RoleLists == { << >>, << <<"d","a","t","a"," ","e","n","g","i","n","e","e","r">> >>, << <<"A","n","a","l","y","s","t">>, <<"D","a","t","a"," ","E","n","g","i","n","e","e","r">> >> }

Experiences == {2, 14}

\* the reply the prompt of verify_with_ai asks for
Reply_good ==
    [ is_valid_job              |-> TRUE,
      matches_role              |-> TRUE,
      matches_company           |-> TRUE,
      is_india_location         |-> TRUE,
      experience_appropriate    |-> TRUE,
      required_experience_range |-> <<"2","-","5"," ","y","e","a","r","s">>,
      experience_gap            |-> 0,
      is_direct_link            |-> TRUE,
      confidence_score          |-> 85,
      reasoning                 |-> <<"f","i","t","s">> ]

\* the fields of the reply that final_valid reads as booleans
VerdictFlags == {"is_valid_job", "is_india_location", "experience_appropriate"}

\* the boolean fields of the reply that final_valid does not read
OtherFlags == {"matches_role", "matches_company", "is_direct_link"}

\* the reply with every field of OtherFlags false
Reply_others == [k \in DOMAIN Reply_good |-> IF k \in OtherFlags THEN FALSE ELSE Reply_good[k]]

\* the replies validate_job_batch is run against
VerifyOutcomes ==
    {Raise, Invalid, Names, Object(Reply_good), Object(Reply_others)}
    \cup {Object(Put(Reply_good, f, FALSE)) : f \in VerdictFlags}
    \cup {Object(Put(Reply_good, "confidence_score", c)) : c \in {59, 60}}
    \cup {Object(Put(Reply_good, "experience_gap", 3))}
    \cup {Object(Put(Put(Reply_good, "experience_gap", -3), "experience_appropriate", FALSE))}
    \cup {Object(Put(Put(Reply_good, "is_valid", TRUE), "quality_score", 100))}
    \cup {Object(Put(Reply_good, "final_valid", FALSE))}

\* the replies verify_with_ai is called with on its own
VerifyCallOutcomes ==
    VerifyOutcomes
    \cup {NotObject, Object(NoDict)}
    \cup {Object(Without(Reply_good, VERIFY_REQUIRED_FIELDS[n])) :
             n \in 1..Len(VERIFY_REQUIRED_FIELDS)}
    \cup {Object(Put(Without(Reply_good, "experience_gap"), "required_experience_range", r)) :
             r \in {<<"2","-","5"," ","y","e","a","r","s">>, <<"5","+"," ","y","e","a","r","s">>, <<"f","r","e","s","h","e","r">>, <<"N","o","t"," ","s","p","e","c","i","f","i","e","d">>, NonString}}
    \cup {Object(Without(Without(Reply_good, "experience_gap"), "required_experience_range"))}
    \cup {Object(Put(Put(Reply_good, "experience_gap", 3), "experience_appropriate", FALSE))}
    \cup {Object(Put(Without(Reply_good, "confidence_score"), "error", <<"r","a","t","e"," ","l","i","m","i","t","e","d">>))}

\* the replies of verify_with_ai a whole run of search_all_companies gets
RunVerifyOutcomes == {Raise, Names, Object(Reply_good)}

\* the replies analyze_job_match is called with on its own
ScoreOutcomes ==
    {Raise, Invalid, NotObject, Names, Object(NoDict), Object(Analysis_match),
     Object(Analysis_senior)}
    \cup {Object(Without(Analysis_match, f)) : f \in DOMAIN Analysis_match}
    \cup {Object(Put(Analysis_match, "required_experience", << >>))}
    \cup {Object(Put(Analysis_match, "match_score", s)) : s \in {0, 100, 150, -5}}
    \cup {Object(Put(Without(Analysis_match, "match_score"), "error", <<"r","a","t","e"," ","l","i","m","i","t","e","d">>))}

\* the replies of analyze_job_match a whole run of search_all_companies gets
RunScoreOutcomes == {Raise, Invalid, Object(Analysis_match)}

\* search results
Res_1      == [title |-> Title_de, link |-> Link_job, snippet |-> Snippet_in]
Res_2      == [title |-> Title_upper, link |-> Link_job2, snippet |-> Snippet_uk]
Res_plain  == [title |-> Title_de, link |-> Link_plain, snippet |-> Snippet_in]
Res_nolink == [title |-> Title_de, snippet |-> Snippet_in]
Res_null   == [title |-> Title_de, link |-> Link_job2, snippet |-> None]

\* what a request to the search API can come back with: the request raised
\* (or response.json() did), a status other than 200, or a body
SearchResponses ==
    { [kind |-> "raise",  data |-> NoDict],
      [kind |-> "status", data |-> NoDict],
      [kind |-> "ok",     data |-> NoDict],
      [kind |-> "ok",     data |-> [organic |-> << >>]],
      [kind |-> "ok",     data |-> [organic |-> << Res_1 >>]],
      [kind |-> "ok",     data |-> [organic |-> << Res_2, Res_2 >>]],
      [kind |-> "ok",     data |-> [organic |-> << Res_null >>]],
      [kind |-> "ok",     data |-> [organic |-> << Res_plain, Res_nolink, Res_1, Res_2 >>]] }

Companies == << Company, Company2 >>

CompanyLists == {SubSeq(Companies, 1, n) : n \in 0..Len(Companies)}

Resumes == { << >>, Resume_text }

\* the experience of the user in a whole run
RunExperiences == {2}


----------------------------------------------------------------------------
(* validate_job_batch on its own: any job list, any roles                  *)

\* validate_job_batch: return validated_jobs
ReturnBatch ==
    /\ pc = "validate"
    /\ idx = Len(jobs)
    /\ pc' = "returned"
    /\ call_out' = validated_jobs
    /\ UNCHANGED <<resume, companies, job_roles, user_experience, company_idx, query_idx,
                   all_results, seen_links, score_idx, jobs, idx, validated_jobs,
                   basic_validation, ai_validation, branch, gate2_calls, verify_log, search_calls,
                   model_calls, score_log, call_in, result>>

InitBatch ==
    /\ pc = "validate"
    /\ jobs \in JobLists
    /\ job_roles \in RoleLists
    /\ user_experience \in Experiences
    /\ idx = 0
    /\ validated_jobs = << >>
    /\ basic_validation = NoDict
    /\ ai_validation = NoDict
    /\ branch = << >>
    /\ gate2_calls = [i \in 1..Len(jobs) |-> 0]
    /\ verify_log = << >>
    /\ model_calls = 0
    /\ search_calls = 0
    /\ resume = << >>
    /\ companies = << >>
    /\ company_idx = 0
    /\ query_idx = 0
    /\ all_results = << >>
    /\ seen_links = {}
    /\ score_idx = 0
    /\ score_log = << >>
    /\ call_in = NoDict
    /\ call_out = << >>
    /\ result = NoDict

NextBatch == ValidateJob(VerifyOutcomes) \/ ReturnBatch

SpecBatch == InitBatch /\ [][NextBatch]_vars

----------------------------------------------------------------------------
(* One run of search_all_companies                                         *)

Init ==
    /\ pc = "start"
    /\ resume \in Resumes
    /\ companies \in CompanyLists
    /\ job_roles \in RoleLists
    /\ user_experience \in RunExperiences
    /\ company_idx = 0
    /\ query_idx = 0
    /\ all_results = << >>
    /\ seen_links = {}
    /\ score_idx = 0
    /\ jobs = << >>
    /\ idx = 0
    /\ validated_jobs = << >>
    /\ basic_validation = NoDict
    /\ ai_validation = NoDict
    /\ branch = << >>
    /\ gate2_calls = << >>
    /\ verify_log = << >>
    /\ search_calls = 0
    /\ model_calls = 0
    /\ score_log = << >>
    /\ call_in = NoDict
    /\ call_out = << >>
    /\ result = NoDict

Next ==
    \/ Start
    \/ (SerperQuery(SearchResponses) /\ Len(jobs) + Len(all_results') <= MaxCandidates)
    \/ SearchReturn
    \/ ScoreJob(RunScoreOutcomes)
    \/ NextCompany
    \/ ValidateJob(RunVerifyOutcomes)
    \/ Report

Spec == Init /\ [][Next]_vars

----------------------------------------------------------------------------
(* analyze_job_match and verify_with_ai, each called once on its own       *)

CallJobs == JobPool \cup {Job_new}

CallAnalyze ==
    /\ pc = "call"
    /\ call_in["fn"] = "analyze_job_match"
    /\ pc' = "returned"
    /\ call_out' = analyze_job_match(call_in["job"].title, call_in["job"].snippet,
                                     call_in["job"].link, Resume_text,
                                     call_in["user_experience"], << Title_de >>,
                                     call_in["outcome"])
    /\ UNCHANGED <<resume, companies, job_roles, user_experience, company_idx, query_idx,
                   all_results, seen_links, score_idx, jobs, idx, validated_jobs,
                   basic_validation, ai_validation, branch, gate2_calls, verify_log,
                   search_calls, model_calls, score_log, call_in, result>>

CallVerify ==
    /\ pc = "call"
    /\ call_in["fn"] = "verify_with_ai"
    /\ ~ReturnsNoDict(call_in["outcome"])
    /\ pc' = "returned"
    /\ call_out' = verify_with_ai(call_in["job"], << Title_de >>, call_in["job"].company,
                                  call_in["user_experience"], call_in["outcome"])
    /\ UNCHANGED <<resume, companies, job_roles, user_experience, company_idx, query_idx,
                   all_results, seen_links, score_idx, jobs, idx, validated_jobs,
                   basic_validation, ai_validation, branch, gate2_calls, verify_log,
                   search_calls, model_calls, score_log, call_in, result>>

InitCalls ==
    /\ pc = "call"
    /\ \/ call_in \in [fn : {"analyze_job_match"}, job : CallJobs,
                        user_experience : Experiences, outcome : ScoreOutcomes]
       \/ call_in \in [fn : {"verify_with_ai"}, job : {Job_good},
                        user_experience : Experiences, outcome : VerifyCallOutcomes]
    /\ call_out = NoDict
    /\ resume = << >>
    /\ companies = << >>
    /\ job_roles = << >>
    /\ user_experience = 0
    /\ company_idx = 0
    /\ query_idx = 0
    /\ all_results = << >>
    /\ seen_links = {}
    /\ score_idx = 0
    /\ jobs = << >>
    /\ idx = 0
    /\ validated_jobs = << >>
    /\ basic_validation = NoDict
    /\ ai_validation = NoDict
    /\ branch = << >>
    /\ gate2_calls = << >>
    /\ verify_log = << >>
    /\ search_calls = 0
    /\ model_calls = 0
    /\ score_log = << >>
    /\ result = NoDict

NextCalls == CallAnalyze \/ CallVerify

SpecCalls == InitCalls /\ [][NextCalls]_vars


----------------------------------------------------------------------------
(* Single calls of generate_validation_report, get_recommendations and     *)
(* validate_job_data                                                       *)

\* the variables of a whole run, at rest while a single function is called
NoRun ==
    /\ resume = << >>
    /\ companies = << >>
    /\ job_roles = << >>
    /\ user_experience = 0
    /\ company_idx = 0
    /\ query_idx = 0
    /\ all_results = << >>
    /\ seen_links = {}
    /\ score_idx = 0
    /\ jobs = << >>
    /\ idx = 0
    /\ validated_jobs = << >>
    /\ basic_validation = NoDict
    /\ ai_validation = NoDict
    /\ branch = << >>
    /\ gate2_calls = << >>
    /\ verify_log = << >>
    /\ search_calls = 0
    /\ model_calls = 0
    /\ score_log = << >>
    /\ result = NoDict

\* reason mappings given to generate_validation_report: label and count, in
\* the order of the dict
ReasonMappings ==
    { << >>,
      << << "Invalid URL", 0 >>, << "Doesn't Match Role", 0 >> >>,
      << << "Invalid URL", 1 >>, << "Not India Location", 0 >>,
         << "Experience Mismatch", 2 >>, << "Low Confidence", 0 >>,
         << "Doesn't Match Role", 2 >> >>,
      << << "Low Confidence", 3 >>, << "Doesn't Match Role", -1 >> >> }

\* the calls of generate_validation_report
ReportCalls ==
    [fn : {"generate_validation_report"}, original_count : 0..MaxJobs,
     validated_count : 0..MaxJobs, filtered_reasons : ReasonMappings,
     user_experience : Experiences]

\* ValidationAgent.generate_validation_report, called on its own
CallReport ==
    /\ pc = "call"
    /\ call_in["fn"] = "generate_validation_report"
    /\ pc' = "returned"
    /\ call_out' = generate_validation_report(call_in["original_count"],
                                              call_in["validated_count"],
                                              call_in["filtered_reasons"],
                                              call_in["user_experience"])
    /\ UNCHANGED <<resume, companies, job_roles, user_experience, company_idx, query_idx,
                   all_results, seen_links, score_idx, jobs, idx, validated_jobs,
                   basic_validation, ai_validation, branch, gate2_calls, verify_log,
                   search_calls, model_calls, score_log, call_in, result>>

\* longest job list given to get_recommendations
MaxRecJobs == 6

\* jobs given to get_recommendations: scores 90, 50, 50 and a score of null
Rec_high == MkJob(Company, Title_de, Link_job, Snippet_in,
                  [match_score |-> 90, experience_match |-> TRUE])
Rec_mid  == MkJob(Company2, Title_de, Link_job2, Snippet_in,
                  [match_score |-> 50, experience_match |-> TRUE])
Rec_mid2 == MkJob(Company, Title_upper, Link_job2, Snippet_in,
                  [match_score |-> 50, experience_match |-> FALSE])
Rec_null == MkJob(Company2, Title_upper, Link_job, Snippet_in,
                  [null |-> {"match_score"}, experience_match |-> TRUE])

RecPool == {Rec_high, Rec_mid, Rec_mid2, Rec_null}

\* the replies to the request of get_recommendations
RecOutcomes == {Raise, Text(<<"A","p","p","l","y"," ","t","o"," ","A","c","m","e"," ","f","i","r","s","t">>)}

\* the calls of get_recommendations
RecommendCalls ==
    [fn : {"get_recommendations"}, jobs : ListsOf(RecPool, MaxRecJobs),
     user_experience : RunExperiences, outcome : RecOutcomes]

\* JobSearchAgent.get_recommendations, called on its own
CallRecommend ==
    /\ pc = "call"
    /\ call_in["fn"] = "get_recommendations"
    /\ pc' = "returned"
    /\ call_out' = get_recommendations(call_in["jobs"], call_in["user_experience"],
                                       call_in["outcome"])
    /\ UNCHANGED <<resume, companies, job_roles, user_experience, company_idx, query_idx,
                   all_results, seen_links, score_idx, jobs, idx, validated_jobs,
                   basic_validation, ai_validation, branch, gate2_calls, verify_log,
                   search_calls, model_calls, score_log, call_in, result>>

\* jobs given to validate_job_data: every mix of a good and a bad company,
\* title, link, description and location, with and without an experience
\* mismatch
Title_short == <<"D","e","v">>
\* a description that is too short and names no place in India
Snippet_far == <<"L","o","n","d","o","n",","," ","8","+"," ","y","r","s">>

DataJobs ==
    {MkJob(company, title, link, snippet, analysis) :
        company \in {Company, NA, << >>},
        title \in {Title_de, Title_short},
        link \in {Link_job, Link_plain},
        snippet \in {Snippet_in, Snippet_uk, Snippet_cut, Snippet_far},
        analysis \in {Analysis_match, Analysis_senior, NoDict}}

\* the experience of the user in the calls of validate_job_data
DataExperiences == {0, 2, 8, 14}

\* the calls of validate_job_data
ValidateDataCalls ==
    [fn : {"validate_job_data"}, job : DataJobs, user_experience : DataExperiences]

\* most years of experience a user has in the calls that vary the experience
MaxYears == 14

\* what the match_analysis of a job can say about the experience: the match
\* true, false or absent, the required experience a range, an open range, a
\* fresher posting, unknown or absent
ExperienceAnalyses ==
    LET matches == {[Analysis_match EXCEPT !["experience_match"] = b] : b \in BOOLEAN}
                   \cup {Without(Analysis_match, "experience_match")}
    IN  {[a EXCEPT !["required_experience"] = t] :
            a \in matches, t \in {<<"3","-","5"," ","y","e","a","r","s">>, <<"5","+"," ","y","e","a","r","s">>, <<"F","r","e","s","h","e","r">>, NotSpecified}}
        \cup {Without(a, "required_experience") : a \in matches}

\* jobs that pass the five fixed checks and differ in the match_analysis
ExperienceJobs ==
    {MkJob(Company, Title_de, Link_job, Snippet_in, analysis) : analysis \in ExperienceAnalyses}

\* the calls of validate_job_data that vary the experience
ExperienceCalls ==
    [fn : {"validate_job_data"}, job : ExperienceJobs, user_experience : 0..MaxYears]

\* ValidationAgent.validate_job_data, called on its own
CallValidateData ==
    /\ pc = "call"
    /\ call_in["fn"] = "validate_job_data"
    /\ pc' = "returned"
    /\ call_out' = validate_job_data(call_in["job"], call_in["user_experience"])
    /\ UNCHANGED <<resume, companies, job_roles, user_experience, company_idx, query_idx,
                   all_results, seen_links, score_idx, jobs, idx, validated_jobs,
                   basic_validation, ai_validation, branch, gate2_calls, verify_log,
                   search_calls, model_calls, score_log, call_in, result>>

\* longest list of phrases a text given to extract_experience_years is made of
MaxPhrases == 3

\* phrases of a posting, each with what it says about the experience: a
\* range "N-M years", an open requirement "N+ years" / "N years", a term for
\* beginners, or nothing
ExperiencePhrases ==
    { [text |-> <<"3","-","5"," ","y","e","a","r","s"," ","e","x","p","e","r","i","e","n","c","e">>, kind |-> "range", min |-> 3,  max |-> 5],
      [text |-> <<"2"," ","-"," ","4"," ","Y","r","s">>,            kind |-> "range", min |-> 2,  max |-> 4],
      [text |-> <<"5","+"," ","y","e","a","r","s">>,             kind |-> "plus",  min |-> 5,  max |-> 10],
      [text |-> <<"1","0"," ","y","e","a","r","s">>,             kind |-> "plus",  min |-> 10, max |-> 15],
      [text |-> <<"f","r","e","s","h","e","r">>,              kind |-> "term",  min |-> 0,  max |-> 2],
      [text |-> <<"E","n","t","r","y"," ","L","e","v","e","l">>,          kind |-> "term",  min |-> 0,  max |-> 2],
      [text |-> <<"g","r","a","d","u","a","t","e">>,             kind |-> "term",  min |-> 0,  max |-> 2],
      [text |-> <<"s","e","n","i","o","r"," ","r","o","l","e">>,          kind |-> "none",  min |-> 0,  max |-> 0] }

\* the text made of the phrases of a list, a comma and a space between them
RECURSIVE JoinPhrases(_)
JoinPhrases(phrases) ==
    IF Len(phrases) = 0 THEN << >>
    ELSE IF Len(phrases) = 1 THEN phrases[1].text
    ELSE phrases[1].text \o <<","," ">> \o JoinPhrases(Tail(phrases))

\* the calls of extract_experience_years
ExtractCalls ==
    [fn : {"extract_experience_years"}, phrases : ListsOf(ExperiencePhrases, MaxPhrases)]

\* Config.extract_experience_years, called on its own
CallExtract ==
    /\ pc = "call"
    /\ call_in["fn"] = "extract_experience_years"
    /\ pc' = "returned"
    /\ call_out' = extract_experience_years(JoinPhrases(call_in["phrases"]))
    /\ UNCHANGED <<resume, companies, job_roles, user_experience, company_idx, query_idx,
                   all_results, seen_links, score_idx, jobs, idx, validated_jobs,
                   basic_validation, ai_validation, branch, gate2_calls, verify_log,
                   search_calls, model_calls, score_log, call_in, result>>

InitFunctions ==
    /\ pc = "call"
    /\ call_in \in ReportCalls \cup RecommendCalls \cup ValidateDataCalls \cup ExperienceCalls
                 \cup ExtractCalls
    /\ call_out = NoDict
    /\ NoRun

NextFunctions == CallReport \/ CallRecommend \/ CallValidateData \/ CallExtract

SpecFunctions == InitFunctions /\ [][NextFunctions]_vars

----------------------------------------------------------------------------
(* validate_job_batch on two lists and on their concatenation, Gate 2      *)
(* answering as a function of the job                                      *)

\* the jobs Gate 2 answers for in its own way; any other job that reaches
\* Gate 2 gets the reply the prompt asks for
Gate2Jobs == {Job_good, Job_senior}

\* what Gate 2 may answer for a job
Gate2Answers ==
    {Object(Reply_good),
     Object(Put(Put(Reply_good, "experience_gap", -3), "experience_appropriate", FALSE)),
     Names}

\* Gate 2 as a function of the job
Gate2Functions == [Gate2Jobs -> Gate2Answers]

\* the answer of Gate 2 for the next job of the loop
Gate2Answer ==
    IF idx < Len(jobs) /\ jobs[idx + 1] \in DOMAIN call_in["gate2"]
    THEN {call_in["gate2"][jobs[idx + 1]]}
    ELSE {Object(Reply_good)}

\* pairs of job lists whose concatenation has at most MaxJobs jobs
ListPairs ==
    {pair \in JobLists \X JobLists : Len(pair[1]) + Len(pair[2]) <= MaxJobs}

\* the list of the call that follows n finished calls: the first list, the
\* second list, their concatenation
ListOfCall(n) ==
    IF n = 0 THEN call_in["first"]
    ELSE IF n = 1 THEN call_in["second"]
    ELSE call_in["first"] \o call_in["second"]

\* one call of validate_job_batch is over, by its return (line 215) or by
\* the exception that left it; the next call begins, lines 166-167
NextCall(outcome) ==
    /\ call_out' = Append(call_out, outcome)
    /\ IF Len(call_out) < 2
       THEN /\ pc' = "validate"
            /\ jobs' = ListOfCall(Len(call_out) + 1)
            /\ gate2_calls' = [i \in 1..Len(jobs') |-> 0]
       ELSE /\ pc' = "returned"
            /\ UNCHANGED <<jobs, gate2_calls>>
    /\ idx' = 0
    /\ validated_jobs' = << >>
    /\ branch' = << >>
    /\ verify_log' = << >>
    /\ UNCHANGED <<resume, companies, job_roles, user_experience, company_idx, query_idx,
                   all_results, seen_links, score_idx, basic_validation, ai_validation,
                   search_calls, model_calls, score_log, call_in, result>>

\* validate_job_batch returns validated_jobs, line 215
ReturnCall ==
    /\ pc = "validate"
    /\ idx = Len(jobs)
    /\ NextCall([raised |-> FALSE, jobs |-> validated_jobs])

\* validate_job_batch is left by the exception of line 189
RaiseCall ==
    /\ pc = "raised"
    /\ NextCall([raised |-> TRUE, jobs |-> << >>])

InitConcat ==
    /\ pc = "validate"
    /\ \E pair \in ListPairs : \E gate2 \in Gate2Functions :
          /\ call_in = [first |-> pair[1], second |-> pair[2], gate2 |-> gate2]
          /\ jobs = pair[1]
    /\ job_roles \in RoleLists \ {<< >>}
    /\ user_experience \in RunExperiences
    /\ idx = 0
    /\ validated_jobs = << >>
    /\ basic_validation = NoDict
    /\ ai_validation = NoDict
    /\ branch = << >>
    /\ gate2_calls = [i \in 1..Len(jobs) |-> 0]
    /\ verify_log = << >>
    /\ model_calls = 0
    /\ search_calls = 0
    /\ resume = << >>
    /\ companies = << >>
    /\ company_idx = 0
    /\ query_idx = 0
    /\ all_results = << >>
    /\ seen_links = {}
    /\ score_idx = 0
    /\ score_log = << >>
    /\ call_out = << >>
    /\ result = NoDict

NextConcat == ValidateJob(Gate2Answer) \/ ReturnCall \/ RaiseCall

SpecConcat == InitConcat /\ [][NextConcat]_vars

----------------------------------------------------------------------------
(* One call of search_jobs_serper, the responses of the search API given   *)
(* in advance, one for each query                                          *)

\* responses of a search for one role
ScriptResponses ==
    { [kind |-> "raise",  data |-> NoDict],
      [kind |-> "status", data |-> NoDict],
      [kind |-> "ok",     data |-> NoDict],
      [kind |-> "ok",     data |-> [organic |-> << Res_1 >>]],
      [kind |-> "ok",     data |-> [organic |-> << Res_plain, Res_nolink, Res_1, Res_2 >>]] }

\* responses of a search for two roles
ScriptResponsesShort ==
    { [kind |-> "raise",  data |-> NoDict],
      [kind |-> "ok",     data |-> [organic |-> << Res_2, Res_2 >>]] }

\* the lists of exactly n elements of S
ListsOfLen(S, n) == {l \in ListsOf(S, n) : Len(l) = n}

\* the role lists of a search with the responses its queries get
SearchScripts ==
    {[roles |-> << Title_de >>, responses |-> s] :
        s \in ListsOfLen(ScriptResponses, QUERIES_PER_ROLE)}
    \cup
    {[roles |-> << Title_de, Title_upper >>, responses |-> s] :
        s \in ListsOfLen(ScriptResponsesShort, 2 * QUERIES_PER_ROLE)}

\* the response the next query gets
ScriptedResponse ==
    IF query_idx < Len(call_in["responses"])
    THEN {call_in["responses"][query_idx + 1]}
    ELSE {}

\* search_jobs_serper returns all_results, line 117
SearchReturnCall ==
    /\ pc = "search"
    /\ query_idx = QUERIES_PER_ROLE * Len(job_roles)
    /\ pc' = "returned"
    /\ call_out' = all_results
    /\ UNCHANGED <<resume, companies, job_roles, user_experience, company_idx, query_idx,
                   all_results, seen_links, score_idx, jobs, idx, validated_jobs,
                   basic_validation, ai_validation, branch, gate2_calls, verify_log,
                   search_calls, model_calls, score_log, call_in, result>>

InitSearch ==
    /\ pc = "search"
    /\ call_in \in SearchScripts
    /\ job_roles = call_in["roles"]
    /\ companies = << Company >>
    /\ company_idx = 1
    /\ query_idx = 0
    /\ all_results = << >>
    /\ seen_links = {}
    /\ search_calls = 0
    /\ call_out = << >>
    /\ resume = << >>
    /\ user_experience = 0
    /\ score_idx = 0
    /\ jobs = << >>
    /\ idx = 0
    /\ validated_jobs = << >>
    /\ basic_validation = NoDict
    /\ ai_validation = NoDict
    /\ branch = << >>
    /\ gate2_calls = << >>
    /\ verify_log = << >>
    /\ model_calls = 0
    /\ score_log = << >>
    /\ result = NoDict

NextSearch == SerperQuery(ScriptedResponse) \/ SearchReturnCall

SpecSearch == InitSearch /\ [][NextSearch]_vars

----------------------------------------------------------------------------
(* Calls of the resume store, one after the other                          *)

\* most calls in a sequence of calls of the store
MaxStoreCalls == 3

\* texts given to store_resume: empty, blank, with outer spaces, a resume
StoreTexts == { << >>, <<" "," ">>, <<" ","c","v"," ">>, Resume_text }

\* the document the collection holds at the start
StoredBefore == { << >>, <<"o","l","d"," ","c","v">> }

\* store_resume is called, call_in and call_out keeping the calls made and
\* what they gave
StoreResume ==
    /\ Len(call_in) < MaxStoreCalls
    /\ \E resume_text \in StoreTexts : \E outcome \in {"ok", "raise"} :
       \E done \in {store_resume(resume, resume_text, outcome)} :
          /\ resume' = done.document
          /\ call_in' = Append(call_in, [fn |-> "store_resume", text |-> resume_text])
          /\ call_out' = Append(call_out, [raised |-> done.raised, value |-> done.value,
                                           text |-> << >>])
    /\ UNCHANGED <<pc, companies, job_roles, user_experience, company_idx, query_idx,
                   all_results, seen_links, score_idx, jobs, idx, validated_jobs,
                   basic_validation, ai_validation, branch, gate2_calls, verify_log,
                   search_calls, model_calls, score_log, result>>

GetFullResume ==
    /\ Len(call_in) < MaxStoreCalls
    /\ call_in' = Append(call_in, [fn |-> "get_full_resume", text |-> << >>])
    /\ call_out' = Append(call_out, [raised |-> FALSE, value |-> TRUE,
                                     text |-> get_full_resume(resume)])
    /\ UNCHANGED <<pc, resume, companies, job_roles, user_experience, company_idx, query_idx,
                   all_results, seen_links, score_idx, jobs, idx, validated_jobs,
                   basic_validation, ai_validation, branch, gate2_calls, verify_log,
                   search_calls, model_calls, score_log, result>>

CheckResumeExists ==
    /\ Len(call_in) < MaxStoreCalls
    /\ call_in' = Append(call_in, [fn |-> "check_resume_exists", text |-> << >>])
    /\ call_out' = Append(call_out, [raised |-> FALSE, value |-> check_resume_exists(resume),
                                     text |-> << >>])
    /\ UNCHANGED <<pc, resume, companies, job_roles, user_experience, company_idx, query_idx,
                   all_results, seen_links, score_idx, jobs, idx, validated_jobs,
                   basic_validation, ai_validation, branch, gate2_calls, verify_log,
                   search_calls, model_calls, score_log, result>>

DeleteResume ==
    /\ Len(call_in) < MaxStoreCalls
    /\ \E done \in {delete_resume(resume)} :
          /\ resume' = done.document
          /\ call_in' = Append(call_in, [fn |-> "delete_resume", text |-> << >>])
          /\ call_out' = Append(call_out, [raised |-> FALSE, value |-> done.value,
                                           text |-> << >>])
    /\ UNCHANGED <<pc, companies, job_roles, user_experience, company_idx, query_idx,
                   all_results, seen_links, score_idx, jobs, idx, validated_jobs,
                   basic_validation, ai_validation, branch, gate2_calls, verify_log,
                   search_calls, model_calls, score_log, result>>

InitStore ==
    /\ pc = "store"
    /\ resume \in StoredBefore
    /\ call_in = << >>
    /\ call_out = << >>
    /\ companies = << >>
    /\ job_roles = << >>
    /\ user_experience = 0
    /\ company_idx = 0
    /\ query_idx = 0
    /\ all_results = << >>
    /\ seen_links = {}
    /\ score_idx = 0
    /\ jobs = << >>
    /\ idx = 0
    /\ validated_jobs = << >>
    /\ basic_validation = NoDict
    /\ ai_validation = NoDict
    /\ branch = << >>
    /\ gate2_calls = << >>
    /\ verify_log = << >>
    /\ search_calls = 0
    /\ model_calls = 0
    /\ score_log = << >>
    /\ result = NoDict

NextStore == StoreResume \/ GetFullResume \/ CheckResumeExists \/ DeleteResume

SpecStore == InitStore /\ [][NextStore]_vars
----------------------------------------------------------------------------
(* The claims                                                              *)

\* a is b with some elements left out
RECURSIVE IsSubsequence(_, _)
IsSubsequence(a, b) ==
    IF Len(a) = 0 THEN TRUE
    ELSE IF Len(b) = 0 THEN FALSE
    ELSE IF Head(a) = Head(b) THEN IsSubsequence(Tail(a), Tail(b))
    ELSE IsSubsequence(a, Tail(b))

\* C1: the list validate_job_batch returns is a sub-sequence of its input
\* (not longer, order kept, nothing added or repeated) and every job in it
\* carries validation.final_valid = true.
C1_BatchReturnsValidSubsequence ==
    pc = "returned" =>
        /\ Len(call_out) <= Len(jobs)
        /\ IsSubsequence(call_out, jobs)
        /\ \A i \in 1..Len(call_out) :
              /\ "final_valid" \in DOMAIN call_out[i].validation
              /\ call_out[i].validation["final_valid"] = TRUE

\* a batch of two jobs returned with one of them filtered out
C1_Witness ==
    /\ pc = "returned"
    /\ Len(jobs) = 2
    /\ Len(call_out) = 1
    /\ call_out[1] = jobs[2]

\* C2: for a job that reaches the combination step, final_valid is true
\* exactly when the six conditions hold: Gate 1 is_valid, Gate 1
\* quality_score >= 40, Gate 2 is_valid_job, is_india_location,
\* experience_appropriate and confidence_score >= 60; nothing else counts.
C2_FinalValidIffSixConditions ==
    (idx > 0 /\ branch[idx] \in {"accepted", "rejected"}) =>
        (jobs[idx].validation["final_valid"] <=>
            /\ basic_validation["is_valid"]
            /\ basic_validation["quality_score"] >= 40
            /\ ai_validation["is_valid_job"]
            /\ ai_validation["is_india_location"]
            /\ ai_validation["experience_appropriate"]
            /\ ai_validation["confidence_score"] >= 60)

\* a job accepted although matches_role, matches_company and is_direct_link are false
C2_Witness ==
    /\ idx > 0
    /\ branch[idx] = "accepted"
    /\ ~ai_validation["matches_role"]
    /\ ~ai_validation["matches_company"]
    /\ ~ai_validation["is_direct_link"]
    /\ jobs[idx].validation["final_valid"]

\* C3: recomputing the combination rule from the fields of a stored verdict
\* gives the stored final_valid, whatever the model replied.
C3_StoredVerdictRecomputes ==
    \A i \in 1..Len(jobs) :
        DOMAIN jobs[i].validation # {} =>
            (jobs[i].validation["final_valid"] <=>
                /\ jobs[i].validation["is_valid"]
                /\ jobs[i].validation["quality_score"] >= 40
                /\ jobs[i].validation["is_valid_job"]
                /\ jobs[i].validation["is_india_location"]
                /\ jobs[i].validation["experience_appropriate"]
                /\ jobs[i].validation["confidence_score"] >= 60)

\* C4: with no resume, no company or no role search_all_companies returns
\* {jobs: [], validation_report: ""} at once: it does not raise and sends no
\* request to the search API or to the model.
C4_PreconditionFailureReturnsEmpty ==
    (Len(resume) = 0 \/ Len(companies) = 0 \/ Len(job_roles) = 0) =>
        /\ pc \in {"start", "done"}
        /\ search_calls = 0
        /\ model_calls = 0
        /\ pc = "done" =>
              /\ result["jobs"] = << >>
              /\ result["validation_report"] = << >>

\* the run has returned, for companies and roles but no resume
C4_Witness ==
    /\ pc = "done"
    /\ Len(resume) = 0
    /\ Len(companies) > 0
    /\ Len(job_roles) > 0
    /\ result["jobs"] = << >>

\* C5: every dict search_all_companies returns holds jobs, validation_report
\* and stats with original_count, validated_count and filtered_count.
C5_ResultAlwaysHasStats ==
    pc = "done" =>
        /\ {"jobs", "validation_report", "stats"} \subseteq DOMAIN result
        /\ {"original_count", "validated_count", "filtered_count"}
              \subseteq DOMAIN result["stats"]

\* the quality score of Gate 1 for each job and experience of the batches
Gate1Quality ==
    [j \in JobPool |-> [e \in Experiences |-> validate_job_data(j, e)["quality_score"]]]

\* whether the lowercased title of a job contains a lowercased role of a list
TitleHasRole ==
    [j \in JobPool |-> [roles \in RoleLists |->
        \E r \in 1..Len(roles) : Contains(ToLower(j.title), ToLower(roles[r]))]]

\* C6: validate_job_batch asks the model about a job exactly when the quality
\* score of Gate 1 is at least 40 and the lowercased title contains a
\* lowercased role; a job that fails either test is left out of the output
\* and costs no request.  (Of the jobs the loop has come to.)
C6_Gate2CallIffPrefiltersPass ==
    /\ \A i \in 1..Len(jobs) :
          i > idx => gate2_calls[i] = 0
    /\ \A i \in 1..idx :
          \E job \in {[jobs[i] EXCEPT !.validation = NoDict]} :
          \E passes \in {Gate1Quality[job][user_experience] >= 40 /\ TitleHasRole[job][job_roles]} :
             /\ gate2_calls[i] = IF passes THEN 1 ELSE 0
             /\ ~passes => \A k \in 1..Len(validated_jobs) : validated_jobs[k] # jobs[i]
    /\ model_calls = Cardinality({i \in 1..Len(jobs) : gate2_calls[i] = 1})

\* one job went to the model, the next one was stopped by its quality score
C6_Witness ==
    /\ idx = 2
    /\ gate2_calls = << 1, 0 >>
    /\ branch[2] = "low_quality"
    /\ basic_validation["quality_score"] = 35

\* C7: a scoring request that raises, or whose text is no JSON, gives the
\* candidate the default analysis (match_score 50, recommendation "Review",
\* no skills, an error field), and the scoring loop goes on.
C7_ScoringFailureGivesDefault ==
    /\ Len(score_log) = Len(jobs)
    /\ pc = "raised" => idx > 0
    /\ \A i \in 1..Len(score_log) :
          score_log[i] \in {"raise", "invalid"} =>
              /\ jobs[i].match_analysis["match_score"] = 50
              /\ jobs[i].match_analysis["recommendation"] = <<"R","e","v","i","e","w">>
              /\ jobs[i].match_analysis["matching_skills"] = << >>
              /\ jobs[i].match_analysis["missing_skills"] = << >>
              /\ "error" \in DOMAIN jobs[i].match_analysis

\* a request that raised, and after it the next candidate was scored
C7_Witness ==
    /\ Len(score_log) = 2
    /\ score_log[1] = "raise"
    /\ score_log[2] = "object"
    /\ Len(jobs) = 2
    /\ jobs[1].match_analysis["match_score"] = 50

C9_RequiredFieldsPresent ==
    (pc = "returned" /\ call_in["fn"] = "analyze_job_match") =>
        {"match_score", "matching_skills", "missing_skills", "recommendation"}
            \subseteq DOMAIN call_out

\* a reply that has only some of the fields
C9_Witness ==
    /\ pc = "returned"
    /\ call_in["fn"] = "analyze_job_match"
    /\ call_in["outcome"].kind = "object"
    /\ "recommendation" \notin DOMAIN call_in["outcome"].value
    /\ "match_score" \in DOMAIN call_in["outcome"].value
    /\ call_out["recommendation"] = <<"R","e","v","i","e","w">>

\* C10: when the request of verify_with_ai raises or its text is no JSON,
\* the verdict is the optimistic default (the six flags true, experience_gap
\* 0, confidence_score 50, an error field) and validate_job_batch goes on
\* with the jobs that remain.
C10_VerifyFailureGivesOptimisticDefault ==
    /\ Len(verify_log) = idx
    /\ \A i \in 1..idx :
          verify_log[i] \in {"raise", "invalid"} =>
              /\ branch[i] # "raised"
              /\ i = idx => pc \in {"validate", "returned"}
              /\ \A f \in {"is_valid_job", "matches_role", "matches_company",
                           "is_india_location", "experience_appropriate", "is_direct_link"} :
                    jobs[i].validation[f] = TRUE
              /\ jobs[i].validation["experience_gap"] = 0
              /\ jobs[i].validation["confidence_score"] = 50
              /\ "error" \in DOMAIN jobs[i].validation

\* the request for the first job raised, and the second job was still put to the model
C10_Witness ==
    /\ idx = 2
    /\ verify_log[1] = "raise"
    /\ verify_log[2] = "object"
    /\ gate2_calls = << 1, 1 >>
    /\ jobs[1].validation["confidence_score"] = 50

\* C11, as claimed: a job for which the six conditions of final_valid hold
\* and whose experience_gap is beyond the tolerance of 2 is left out by the
\* tolerance check.
C11_LargeGapVetoesPositiveVerdict ==
    (/\ idx > 0
     /\ branch[idx] \in {"gap", "accepted", "rejected"}
     /\ basic_validation["is_valid"]
     /\ basic_validation["quality_score"] >= 40
     /\ ai_validation["is_valid_job"]
     /\ ai_validation["is_india_location"]
     /\ ai_validation["experience_appropriate"]
     /\ ai_validation["confidence_score"] >= 60
     /\ (ai_validation["experience_gap"] > 2 \/ ai_validation["experience_gap"] < -2))
    => branch[idx] = "gap"

\* C11, amended: the tolerance check never vetoes an otherwise positive
\* verdict.  It leaves a job out only when experience_appropriate is false,
\* so a job for which the six conditions hold is appended to the output
\* whatever its experience_gap.
C11_ToleranceNeverVetoesPositiveVerdict ==
    (idx > 0 /\ branch[idx] \in {"gap", "accepted", "rejected"}) =>
        /\ branch[idx] = "gap" =>
              /\ ~ai_validation["experience_appropriate"]
              /\ (ai_validation["experience_gap"] > 2 \/ ai_validation["experience_gap"] < -2)
        /\ (/\ basic_validation["is_valid"]
            /\ basic_validation["quality_score"] >= 40
            /\ ai_validation["is_valid_job"]
            /\ ai_validation["is_india_location"]
            /\ ai_validation["experience_appropriate"]
            /\ ai_validation["confidence_score"] >= 60)
           => /\ branch[idx] = "accepted"
              /\ Len(validated_jobs) > 0
              /\ validated_jobs[Len(validated_jobs)] = jobs[idx]

\* a job with experience_gap 3 and the six conditions true: it is kept
C11_Witness ==
    /\ idx > 0
    /\ branch[idx] = "accepted"
    /\ ai_validation["experience_gap"] = 3
    /\ ai_validation["experience_appropriate"]
    /\ validated_jobs[Len(validated_jobs)] = jobs[idx]

\* search_all_companies left its loop over the companies through the except
\* of line 279: a search result was still waiting to be scored
SearchInterrupted ==
    /\ pc \notin {"start", "search", "score"}
    /\ score_idx < Len(all_results)

\* the candidates of the accumulated list that belong to a company
CandidatesOf(company) == {i \in 1..Len(jobs) : jobs[i].company = company}

C13_LinkUniqueAcrossRun ==
    \A i, j \in 1..Len(jobs) : i # j => jobs[i].link # jobs[j].link

\* C13, amended: the link is a unique key within one call of
\* search_jobs_serper, that is, among the results found for one company
\* over all its roles and queries; seen_links holds exactly those links.
\* The accumulated list of a run may hold one link for two companies.
C13_LinkUniqueWithinOneSearch ==
    /\ \A i, j \in 1..Len(all_results) :
          i # j => all_results[i]["link"] # all_results[j]["link"]
    /\ seen_links = LinksOf(all_results)
    /\ pc \in {"search", "score"} =>
          \A i, j \in (Len(jobs) - score_idx + 1)..Len(jobs) :
              i # j => jobs[i].link # jobs[j].link

\* two companies were searched, each search returned the same link once, and
\* the accumulated list holds it twice
C13_Witness ==
    /\ company_idx = 2
    /\ Len(jobs) = 2
    /\ jobs[1].link = jobs[2].link
    /\ jobs[1].company # jobs[2].company
    /\ Len(all_results) = 1
    /\ search_calls > QUERIES_PER_ROLE * Len(job_roles) + 1

\* C14: in the reason counts search_all_companies gives to the report, the
\* count of "Doesn't Match Role" is what is left of filtered_count once the
\* counts of the four other reasons are taken away.
C14_RoleCountIsResidual ==
    (pc = "done" /\ "stats" \in DOMAIN result) =>
        \E reasons \in {FilteringReasons(jobs, result["stats"].filtered_count)} :
            reasons[5][2] = result["stats"].filtered_count
                            - (reasons[1][2] + reasons[2][2] + reasons[3][2] + reasons[4][2])

\* C14, amended: the count of "Doesn't Match Role" is filtered_count itself,
\* the number of candidates validate_job_batch left out, whatever the four
\* other counts are; the report shows it whenever a candidate was left out.
C14_RoleCountIsFilteredCount ==
    (pc = "done" /\ "stats" \in DOMAIN result) =>
        \E filtered_count \in {result["stats"].filtered_count} :
        \E reasons \in {result["validation_report"][1].reasons} :
            /\ filtered_count = Len(jobs) - Len(result["jobs"])
            /\ filtered_count > 0 =>
                  \E k \in 1..Len(reasons) :
                      reasons[k] = << "Doesn't Match Role", filtered_count >>
            /\ filtered_count = 0 =>
                  \A k \in 1..Len(reasons) : reasons[k][1] # "Doesn't Match Role"

\* one candidate was left out and it also counts under two other reasons:
\* the report shows "Doesn't Match Role" with 1, where the residual is -1
C14_Witness ==
    /\ pc = "done"
    /\ "stats" \in DOMAIN result
    /\ result["stats"].filtered_count = 1
    /\ result["validation_report"][1].reasons =
           << << "Experience Mismatch", 1 >>, << "Low Confidence", 1 >>,
              << "Doesn't Match Role", 1 >> >>

\* C15: generate_validation_report with original_count = 0 returns its
\* report, and the accuracy rate in it is 0, whatever validated_count and
\* the reason mapping are.
C15_ZeroOriginalCountGivesZeroAccuracy ==
    (/\ pc = "returned"
     /\ call_in["fn"] = "generate_validation_report"
     /\ call_in["original_count"] = 0)
    => /\ Len(call_out) = 1
       /\ call_out[1].accuracy_tenths = 0
       /\ call_out[1].original_count = 0
       /\ call_out[1].filtered_out = 0 - call_in["validated_count"]
       /\ call_out[1].reasons =
              SelectSeq(call_in["filtered_reasons"], LAMBDA r : r[2] > 0)

\* original_count 0 with validated_count 2 and a reason mapping with counts
C15_Witness ==
    /\ pc = "returned"
    /\ call_in["fn"] = "generate_validation_report"
    /\ call_in["original_count"] = 0
    /\ call_in["validated_count"] = 2
    /\ Len(call_in["filtered_reasons"]) = 5
    /\ call_out[1].accuracy_tenths = 0

\* the lines are the jobs of the list with the highest scores, at most 5 of
\* them, in descending order of score (a single job with a score of null is
\* the whole summary)
IsTopByScore(lines, job_list) ==
    /\ Len(lines) = (IF Len(job_list) < 5 THEN Len(job_list) ELSE 5)
    /\ \A i \in 1..Len(lines) : \E k \in 1..Len(job_list) :
          /\ lines[i].company = job_list[k].company
          /\ lines[i].title = job_list[k].title
    /\ (\A k \in 1..Len(job_list) : NullFields(job_list[k].match_analysis) = {}) =>
          /\ \A i \in 1..(Len(lines) - 1) : lines[i].score >= lines[i + 1].score
          /\ \A s \in {match_score(job_list[k]) : k \in 1..Len(job_list)} :
                Cardinality({i \in 1..Len(lines) : lines[i].score = s}) =
                    LET have   == Cardinality({k \in 1..Len(job_list) :
                                                  match_score(job_list[k]) = s})
                        higher == Cardinality({k \in 1..Len(job_list) :
                                                  match_score(job_list[k]) > s})
                        room   == IF higher >= 5 THEN 0 ELSE 5 - higher
                    IN  IF have < room THEN have ELSE room

\* C16: get_recommendations never raises.  An empty job list gives the
\* fixed message and no request to the model; any other list gives exactly
\* one request, whose summary lists at most the 5 jobs of highest
\* match_score in descending order, and a failed request gives an error text.
C16_RecommendationsNeverRaise ==
    (pc = "returned" /\ call_in["fn"] = "get_recommendations") =>
        /\ ~call_out.raised
        /\ Len(call_in["jobs"]) = 0 =>
              (call_out.text = NoJobsText /\ call_out.model_calls = 0)
        /\ Len(call_in["jobs"]) > 0 =>
              /\ call_out.model_calls = 1
              /\ IsTopByScore(call_out.prompt[1].jobs_summary, call_in["jobs"])
              /\ call_in["outcome"].kind = "raise" => call_out.text = ErrorText

\* C17: with Gate 2 answering as a function of the job, validate_job_batch
\* on the concatenation of two lists returns the concatenation of what it
\* returns on each list (and is left by an exception exactly when one of the
\* two calls is), so a job is accepted or not whatever the other jobs of the
\* batch and whatever its position.
C17_BatchOfConcatenationIsConcatenation ==
    (pc = "returned" /\ Len(call_out) = 3) =>
        /\ call_out[3].raised <=> (call_out[1].raised \/ call_out[2].raised)
        /\ ~call_out[3].raised => call_out[3].jobs = call_out[1].jobs \o call_out[2].jobs

\* both lists have a job, the first list's job is accepted and the second
\* list's job is not: the concatenation gives the first list's job alone
C17_Witness ==
    /\ pc = "returned"
    /\ Len(call_out) = 3
    /\ Len(call_in["first"]) = 1
    /\ Len(call_in["second"]) = 1
    /\ Len(call_out[1].jobs) = 1
    /\ ~call_out[2].raised
    /\ Len(call_out[2].jobs) = 0
    /\ call_out[3].jobs = call_out[1].jobs

\* the query gets no usable response: the request raised, the status is not
\* 200, or the body has no organic list
QueryFails(response) ==
    ~(response.kind = "ok" /\ "organic" \in DOMAIN response.data)

\* the links a response offers among its first results
OfferedLinks(response) ==
    LET organic == Slice(response.data["organic"], RESULTS_PER_QUERY)
    IN  {organic[i]["link"] : i \in {n \in 1..Len(organic) : "link" \in DOMAIN organic[n]}}

\* C18: in search_jobs_serper a query whose request raises, whose status is
\* not 200 or whose body has no organic list adds no candidate and ends
\* nothing: all 4 queries of every role are issued, the candidates come from
\* the queries that were answered, none of them is lost, and they are what
\* the call returns.
C18_FailedQueryIsSkipped ==
    \E responses \in {call_in["responses"]} :
        /\ search_calls = query_idx
        /\ pc = "returned" =>
              /\ query_idx = 4 * Len(job_roles)
              /\ call_out = all_results
        /\ \A i \in 1..Len(all_results) :
              \E k \in 1..query_idx :
                  /\ ~QueryFails(responses[k])
                  /\ all_results[i]["link"] \in OfferedLinks(responses[k])
                  /\ all_results[i]["search_role"] = job_roles[((k - 1) \div 4) + 1]
        /\ \A k \in 1..query_idx :
              ~QueryFails(responses[k]) =>
                  \A link \in OfferedLinks(responses[k]) :
                      is_valid_job_url(link) => link \in LinksOf(all_results)

\* three of the four queries fail, one after the answered one: the call
\* returns the candidate of the answered query
C18_Witness ==
    /\ pc = "returned"
    /\ Len(job_roles) = 1
    /\ search_calls = 4
    /\ call_in["responses"][1].kind = "raise"
    /\ call_in["responses"][2].kind = "ok"
    /\ ~QueryFails(call_in["responses"][2])
    /\ call_in["responses"][3].kind = "status"
    /\ QueryFails(call_in["responses"][4])
    /\ call_in["responses"][4].kind = "ok"
    /\ Len(call_out) = 1

\* the calls before call k that wrote to the store: a store_resume that
\* succeeded or a delete_resume
WritesBefore(k) ==
    {j \in 1..(k - 1) :
        \/ call_in[j].fn = "store_resume" /\ ~call_out[j].raised
        \/ call_in[j].fn = "delete_resume"}

\* the last of a set of positions, 0 when there is none
LastOf(S) == IF S = {} THEN 0 ELSE CHOOSE j \in S : \A i \in S : i <= j

FixedIssues(job) ==
    (IF ~is_valid_job_url(job.link) THEN << "Invalid or missing job URL" >> ELSE << >>)
    \o (IF job.company \in {<< >>, NA} THEN << "Missing company name" >> ELSE << >>)
    \o (IF Len(job.title) < 5 THEN << "Invalid or too short job title" >> ELSE << >>)
    \o (IF Len(job.snippet) < 50 THEN << "Insufficient job description" >> ELSE << >>)
    \o (IF ~is_indian_location(job.snippet \o << " " >> \o job.title)
        THEN << "Job location may not be in India" >> ELSE << >>)

\* the penalty of a fixed check, by its issue text
FixedPenalty(issue) ==
    CASE issue = "Invalid or missing job URL"       -> 30
      [] issue = "Missing company name"             -> 20
      [] issue = "Invalid or too short job title"   -> 25
      [] issue = "Insufficient job description"     -> 15
      [] issue = "Job location may not be in India" -> 10

RECURSIVE SumFixed(_)
SumFixed(issues) ==
    IF Len(issues) = 0 THEN 0 ELSE FixedPenalty(Head(issues)) + SumFixed(Tail(issues))

\* C20: validate_job_data returns quality_score = 100 minus the penalties of
\* exactly the checks that failed (URL 30, company 20, title 25, description
\* 15, location 10, and at most one experience penalty, 20 or 15), issues
\* has one entry for each failed check in the order of the checks, and
\* is_valid is false exactly when the URL check failed.
C20_QualityIsHundredMinusPenalties ==
    (pc = "returned" /\ call_in["fn"] = "validate_job_data") =>
        \E fixed \in {FixedIssues(call_in["job"])} :
        \E experience \in {100 - SumFixed(fixed) - call_out["quality_score"]} :
            /\ experience \in {0, 15, 20}
            /\ Len(call_out["issues"]) = Len(fixed) + (IF experience > 0 THEN 1 ELSE 0)
            /\ \A i \in 1..Len(fixed) : call_out["issues"][i] = << fixed[i] >>
            /\ experience = 20 =>
                  call_out["issues"][Len(fixed) + 1][1] =
                      "Required {min_exp}+ years, user has {user_experience} years"
            /\ experience = 15 =>
                  call_out["issues"][Len(fixed) + 1][1] =
                      "Job may be too junior (requires {min_exp}-{max_exp} years)"
            /\ call_out["is_valid"] <=> is_valid_job_url(call_in["job"].link)

\* the URL check passes, the company, title and location checks fail and the
\* experience is too short: is_valid true, four issues, quality_score 25
C20_Witness ==
    /\ pc = "returned"
    /\ call_in["fn"] = "validate_job_data"
    /\ call_out["is_valid"]
    /\ Len(call_out["issues"]) = 4
    /\ call_out["quality_score"] = 25
    /\ call_out["issues"][4][1] =
           "Required {min_exp}+ years, user has {user_experience} years"

\* C21: validate_job_data applies an experience penalty only when the
\* match_analysis has experience_match false or absent and the minimum parsed
\* from its required_experience is above 0: 20 when the user has less than
\* min - 1 years, otherwise 15 when the user has more than max + 3 years,
\* otherwise none; never both, and a user from min - 1 to max + 3 years is
\* not penalised.
C21_ExperiencePenaltyHasTolerance ==
    (pc = "returned" /\ call_in["fn"] = "validate_job_data") =>
        LET analysis == call_in["job"].match_analysis
            mismatch == ~Get(analysis, "experience_match", FALSE)
            range    == extract_experience_years(Get(analysis, "required_experience", << >>))
            user     == call_in["user_experience"]
            fixed    == FixedIssues(call_in["job"])
            penalty  == 100 - SumFixed(fixed) - call_out["quality_score"]
        IN  /\ penalty \in {0, 15, 20}
            /\ Len(call_out["issues"]) <= Len(fixed) + 1
            /\ penalty > 0 => mismatch /\ range[1] > 0
            /\ penalty = 20 <=> (mismatch /\ range[1] > 0 /\ user < range[1] - 1)
            /\ penalty = 15 <=> (mismatch /\ range[1] > 0 /\ user >= range[1] - 1
                                    /\ user > range[2] + 3)
            /\ (user >= range[1] - 1 /\ user <= range[2] + 3) => penalty = 0

\* experience_match is absent, "3-5 years" is required and the user has 9
\* years, one more than the tolerance above the maximum: the only issue is
\* the too-junior one and quality_score is 85
C21_Witness ==
    /\ pc = "returned"
    /\ call_in["fn"] = "validate_job_data"
    /\ "experience_match" \notin DOMAIN call_in["job"].match_analysis
    /\ Get(call_in["job"].match_analysis, "required_experience", << >>) = <<"3","-","5"," ","y","e","a","r","s">>
    /\ call_in["user_experience"] = 9
    /\ call_out["quality_score"] = 85
    /\ Len(call_out["issues"]) = 1
    /\ call_out["issues"][1][1] = "Job may be too junior (requires {min_exp}-{max_exp} years)"

\* the experience check of validate_job_data finds a shortfall: the
\* match_analysis has no experience match, a minimum above 0 is required and
\* the user has less than one year below it
ExperienceShortfall(job, user_exp) ==
    LET range == extract_experience_years(Get(job.match_analysis, "required_experience", << >>))
    IN  /\ ~Get(job.match_analysis, "experience_match", FALSE)
        /\ range[1] > 0
        /\ user_exp < range[1] - 1

\* C22: the quality_score returned by validate_job_data is not floored at 0:
\* it lies between -20 and 100 inclusive for every job, and it is -20 when
\* the URL, company, title, description, location and experience-shortfall
\* checks all fail.
C22_QualityIsUnflooredFromMinusTwenty ==
    (pc = "returned" /\ call_in["fn"] = "validate_job_data") =>
        /\ call_out["quality_score"] >= -20
        /\ call_out["quality_score"] <= 100
        /\ (/\ Len(FixedIssues(call_in["job"])) = 5
            /\ ExperienceShortfall(call_in["job"], call_in["user_experience"]))
              => call_out["quality_score"] = -20

\* a job with a link that is no job URL, no company, a three-letter title, a
\* short description that names London and 8-10 years required, for a user
\* with 2 years: six issues and quality_score -20
C22_Witness ==
    /\ pc = "returned"
    /\ call_in["fn"] = "validate_job_data"
    /\ Len(FixedIssues(call_in["job"])) = 5
    /\ ExperienceShortfall(call_in["job"], call_in["user_experience"])
    /\ call_in["user_experience"] = 2
    /\ Len(call_out["issues"]) = 6
    /\ call_out["quality_score"] = -20
    /\ ~call_out["is_valid"]

\* whether the URL check of Gate 1 passes for each job of the batches
Gate1UrlValid ==
    [j \in JobPool |-> is_valid_job_url(j.link)]

\* C23: is_valid false from Gate 1 does not keep a job from Gate 2: a job
\* whose URL check fails, whose quality_score is still at least 40 and whose
\* title matches a role gets its verify_with_ai call; a job the loop has come
\* to is without that call only when its quality_score is below 40 or its
\* title matches no role.
C23_InvalidUrlStillReachesGate2 ==
    \A i \in 1..idx :
        \E job \in {[jobs[i] EXCEPT !.validation = NoDict]} :
            /\ (/\ ~Gate1UrlValid[job]
                /\ Gate1Quality[job][user_experience] >= 40
                /\ TitleHasRole[job][job_roles])
                  => gate2_calls[i] = 1 /\ verify_log[i] # "none"
            /\ gate2_calls[i] = 0
                  => \/ Gate1Quality[job][user_experience] < 40
                     \/ ~TitleHasRole[job][job_roles]

\* the job with the link that is no job URL (is_valid false, quality_score
\* 70) and a matching title has been through the loop and the model was
\* asked about it
C23_Witness ==
    /\ idx = 1
    /\ jobs[1].link = Link_plain
    /\ ~basic_validation["is_valid"]
    /\ basic_validation["quality_score"] = 70
    /\ gate2_calls[1] = 1
    /\ verify_log[1] = "object"
    /\ branch[1] # "low_quality"

\* C24: when the reply of the model to verify_with_ai parses and has no
\* experience_gap, the verdict has experience_gap = user_experience minus the
\* minimum that extract_experience_years parses from
\* required_experience_range, for every range it parses, a minimum of 0 (a
\* "fresher" range (0, 2)) included; an experience_gap of the model is kept.
C24_GapIsExperienceMinusMinimum ==
    (/\ pc = "returned"
     /\ call_in["fn"] = "verify_with_ai"
     /\ call_in["outcome"].kind = "object"
     /\ ~VerifyGapRaises(call_in["outcome"].value)) =>
        LET reply == call_in["outcome"].value
            range == extract_experience_years(Get(reply, "required_experience_range", << >>))
        IN  IF "experience_gap" \in DOMAIN reply
            THEN call_out["experience_gap"] = reply["experience_gap"]
            ELSE range # << 0, 0 >> =>
                    call_out["experience_gap"] = call_in["user_experience"] - range[1]

\* the reply of the model to analyze_job_match holds a required_experience
\* that is not empty
SuppliesRequiredExperience(outcome) ==
    /\ outcome.kind = "object"
    /\ "required_experience" \in DOMAIN outcome.value
    /\ Len(outcome.value["required_experience"]) > 0

\* C25: whenever the model supplies no required_experience (absent or empty
\* in a parsed reply, or the request or the parsing fails), analyze_job_match
\* sets it by one rule on every path: "{min}-{max} years" when
\* extract_experience_years finds a range in the job text (min > 0 or
\* max > 0), "Not specified" only for (0, 0); an experience_match or a
\* location_india of the model is kept.
C25_RequiredExperienceFallbackIsOneRule ==
    (pc = "returned" /\ call_in["fn"] = "analyze_job_match") =>
        LET outcome == call_in["outcome"]
            range   == extract_experience_years(
                           call_in["job"].snippet \o << " " >> \o call_in["job"].title)
        IN  /\ ~SuppliesRequiredExperience(outcome) =>
                  call_out["required_experience"] =
                      IF range # << 0, 0 >> THEN RangeText(range[1], range[2])
                      ELSE NotSpecified
            /\ outcome.kind = "object" =>
                  \A f \in {"experience_match", "location_india"} \cap DOMAIN outcome.value :
                      call_out[f] = outcome.value[f]

\* C26: for every reply of the model, the match_score of the analysis that
\* analyze_job_match returns is an integer from 0 to 100.
C26_MatchScoreWithinRange ==
    (pc = "returned" /\ call_in["fn"] = "analyze_job_match") =>
        call_out["match_score"] \in 0..100

\* C27: in a run of search_all_companies that passes the preconditions, each
\* accumulated candidate stands for exactly one scoring request (none is
\* repeated), no Gate 2 request is made while candidates are still being
\* collected and scored, validate_job_batch is entered once with the whole
\* accumulated list, and it makes at most one Gate 2 request for a candidate.
C27_OneScoringCallThenOneBatch ==
    /\ Len(score_log) = Len(jobs)
    /\ pc \in {"start", "search", "score"} =>
          /\ model_calls = Len(jobs)
          /\ idx = 0
          /\ verify_log = << >>
          /\ gate2_calls = << >>
    /\ (pc \notin {"start", "search", "score"} /\ company_idx >= 1) =>
          /\ Len(gate2_calls) = Len(jobs)
          /\ Len(verify_log) = idx
          /\ idx <= Len(jobs)
          /\ \A i \in 1..Len(jobs) : gate2_calls[i] \in {0, 1}
          /\ \A i \in 1..Len(jobs) : i > idx => gate2_calls[i] = 0
          /\ model_calls = Len(jobs) + Cardinality({i \in 1..Len(jobs) : gate2_calls[i] = 1})

\* two candidates were scored, one of them after a request that raised, and
\* the batch has asked the model about both: four requests in all
C27_Witness ==
    /\ pc = "validate"
    /\ Len(jobs) = 2
    /\ "raise" \in {score_log[i] : i \in 1..Len(score_log)}
    /\ idx = 2
    /\ gate2_calls = << 1, 1 >>
    /\ model_calls = 4

\* the first phrase of a kind in a list of phrases, 0 if there is none
FirstOfKind(phrases, kind) ==
    LET found == {i \in 1..Len(phrases) : phrases[i].kind = kind}
    IN  IF found = {} THEN 0 ELSE CHOOSE i \in found : \A j \in found : i <= j

\* C28: extract_experience_years applies its rules in a fixed precedence, the
\* first that matches wins: a range "N-M years" gives (N, M); otherwise
\* "N+ years" or "N years" gives (N, N + 5); otherwise fresher, entry level
\* or graduate gives (0, 2); otherwise (0, 0).  A text with a range and a
\* beginners' term gives the range.
C28_ExtractionPrecedence ==
    (pc = "returned" /\ call_in["fn"] = "extract_experience_years") =>
        LET phrases == call_in["phrases"]
            range   == FirstOfKind(phrases, "range")
            plus    == FirstOfKind(phrases, "plus")
            term    == FirstOfKind(phrases, "term")
        IN  call_out =
                IF range > 0 THEN << phrases[range].min, phrases[range].max >>
                ELSE IF plus > 0 THEN << phrases[plus].min, phrases[plus].min + 5 >>
                ELSE IF term > 0 THEN << 0, 2 >>
                ELSE << 0, 0 >>

\* "fresher, 5+ years, 3-5 years experience" gives (3, 5): the range wins
\* over the open requirement and the beginners' term that stand before it
C28_Witness ==
    /\ pc = "returned"
    /\ call_in["fn"] = "extract_experience_years"
    /\ Len(call_in["phrases"]) = 3
    /\ call_in["phrases"][1].kind = "term"
    /\ call_in["phrases"][2].text = <<"5","+"," ","y","e","a","r","s">>
    /\ call_in["phrases"][3].text = <<"3","-","5"," ","y","e","a","r","s"," ","e","x","p","e","r","i","e","n","c","e">>
    /\ call_out = << 3, 5 >>

\* C29: a job whose Gate 2 request raises, or whose Gate 2 reply is no JSON,
\* is never in the output of validate_job_batch: the default verdict has
\* confidence_score 50, below the 60 that final_valid needs, so the job is
\* rejected although the default sets every flag true.
C29_ValidatorOutageRejects ==
    \A i \in 1..idx :
        verify_log[i] \in {"raise", "invalid"} =>
            /\ branch[i] = "rejected"
            /\ jobs[i].validation["final_valid"] = FALSE
            /\ jobs[i].validation["confidence_score"] < MIN_CONFIDENCE
            /\ \A f \in VerdictFlags : jobs[i].validation[f] = TRUE
            /\ \A k \in 1..Len(validated_jobs) : validated_jobs[k] # jobs[i]

\* the job that passes every check of Gate 1 is put to the model twice in one
\* list: the first request raises and the job is rejected, the second is
\* answered and the job is accepted
C29_Witness ==
    /\ idx = 2
    /\ jobs[1].link = jobs[2].link
    /\ verify_log = << "raise", "object" >>
    /\ jobs[1].validation["is_valid"]
    /\ jobs[1].validation["quality_score"] = 100
    /\ branch = << "rejected", "accepted" >>
    /\ Len(validated_jobs) = 1

\* C30: in every run of search_all_companies each candidate given to
\* validate_job_batch has a link that is_valid_job_url accepts, as
\* search_jobs_serper keeps no other; so Gate 1 finds every candidate of the
\* run valid and the count of the reason "Invalid URL" is 0.
C30_CandidatesHaveJobUrls ==
    /\ \A i \in 1..Len(all_results) : is_valid_job_url(all_results[i]["link"])
    /\ \A i \in 1..Len(jobs) : is_valid_job_url(jobs[i].link)
    /\ (pc \in {"validate", "raised", "done"} /\ idx >= 1) => basic_validation["is_valid"]
    /\ (pc = "done" /\ "stats" \in DOMAIN result) =>
          /\ FilteringReasons(jobs, result["stats"]["filtered_count"])[1] = << "Invalid URL", 0 >>
          /\ \A r \in 1..Len(result["validation_report"][1].reasons) :
                result["validation_report"][1].reasons[r][1] # "Invalid URL"

\* a run ends with two candidates, one of them filtered out: the report
\* gives reasons, and "Invalid URL" is not among them
C30_Witness ==
    /\ pc = "done"
    /\ "stats" \in DOMAIN result
    /\ result["stats"]["original_count"] = 2
    /\ result["stats"]["filtered_count"] = 1
    /\ basic_validation["is_valid"]
    /\ Len(result["validation_report"][1].reasons) >= 1
    /\ jobs[1].link # jobs[2].link

====
